---- MODULE Spec2Model ----
(***************************************************************************)
(* State-machine model of the trading core of rai_algo:                    *)
(*   - RiskManager       (src/rai_algo/risk.py)                            *)
(*   - LiveTrader        (src/rai_algo/live_trader.py)                     *)
(*   - DemoTrader        (src/rai_algo/demo_trader.py)                     *)
(*   - BacktestEngine    (src/rai_algo/backtest.py)                        *)
(*                                                                         *)
(* Money is modelled in integer units and every rate as an exact fraction  *)
(* (percent, or per SlipDen for slippage), so a comparison such as         *)
(* loss/start >= max_daily_loss is decided by cross-multiplication.        *)
(* None is the string "None"; a Python exception is a "raised" flag.       *)
(***************************************************************************)
EXTENDS Integers, Sequences, FiniteSets, TLC

VARIABLES
    rm,         \* the RiskManager object (is_killed, kill_reason, balances, daily_stats)
    limits,     \* its RiskLimits configuration (immutable)
    now,        \* the wall clock read by datetime.now(): [day, hour]
    lastCall,   \* the last RiskManager method called, its arguments and its result
    engine,     \* which execution engine runs: "live" (LiveTrader) or "demo" (DemoTrader)
    cfg,        \* TraderConfig / DemoTraderConfig flags (immutable)
    tr,         \* the trader object and its main-loop thread
    demo,       \* DemoTrader's virtual account: virtual_cash, virtual_capital, trades
    th,         \* the heartbeat thread, the caller inside stop(), the last stop() call
    bt,         \* one BacktestEngine.run call (backtest.py, or backtest/core.py): its arguments, locals, position and result
    opt         \* one Optimizer.optimize call: its arguments, locals and result

riskVars == <<rm, limits, now, lastCall>>

execVars == <<engine, cfg, tr, demo, th>>

vars == <<rm, limits, now, lastCall, engine, cfg, tr, demo, th, bt, opt>>

None == "None"

--------------------------------------------------------------------------
(* Bounds of the model *)

\* days are 0..MaxDay
MaxDay == 1
\* clock hours of a day are 0..MaxHour
MaxHour == 1
\* record_order is explored while orders_count < MaxOrders (order-rate runs)
MaxOrders == 2
\* ... and while orders_count < MaxOrdersKill in the kill-switch runs
MaxOrdersKill == 1
\* record_trade is explored while trades_count < MaxTrades
MaxTrades == 1
\* config.max_history_length of the traders explored
MaxHistoryLength == 2
\* bars of a backtest input
MaxBars == 2
\* values in the first parameter list of an optimizer grid
MaxGridValues == 2
\* at most this many heartbeat threads of earlier start() calls are followed
MaxOldThreads == 2

--------------------------------------------------------------------------
(* RiskLimits defaults, in percent *)

\* RiskLimits.max_daily_loss = 0.05
MaxDailyLossPct == 5
\* RiskLimits.max_position_size = 0.10
MaxPositionSizePct == 10
\* RiskLimits.max_total_exposure = 0.50
MaxTotalExposurePct == 50
\* RiskLimits.max_drawdown = 0.15
MaxDrawdownPct == 15

\* The configurations explored: the default floor (0) with a one-per-hour cap,
\* and a positive floor with a daily cap that binds before the hourly one.
LimitConfigs ==
    { [max_daily_loss |-> MaxDailyLossPct, max_position_size |-> MaxPositionSizePct,
       max_total_exposure |-> MaxTotalExposurePct, max_drawdown |-> MaxDrawdownPct,
       min_balance |-> 0, max_orders_per_day |-> 2, max_orders_per_hour |-> 1],
      [max_daily_loss |-> MaxDailyLossPct, max_position_size |-> MaxPositionSizePct,
       max_total_exposure |-> MaxTotalExposurePct, max_drawdown |-> MaxDrawdownPct,
       min_balance |-> 90, max_orders_per_day |-> 2, max_orders_per_hour |-> 2] }

\* Account balances an exchange can report (account units).
Balances == {0, 85, 95, 100}

\* ... and the ones the order-rate runs use
RateBalances == {95, 100}

\* Signal strengths in percent: 1.0 is 100; a strategy may return more.
Strengths == {100, 150}

SignalTypes == {"buy", "sell", "hold", "close"}

\* realised PnL values passed to record_trade
PnLs == {-5}

--------------------------------------------------------------------------
(* Exact fractions *)

RECURSIVE GCD(_, _)
GCD(a, b) == IF b = 0 THEN a ELSE GCD(b, a % b)

\* the fraction n/d (d > 0, n >= 0) in lowest terms
Frac(n, d) == IF n = 0 THEN <<0, 1>> ELSE <<n \div GCD(n, d), d \div GCD(n, d)>>

\* x >= p percent
FracGEPct(x, p) == x[1] * 100 >= p * x[2]

\* sums, differences and products of fractions in lowest terms (a numerator may be
\* negative), reduced before multiplying
FracAdd(x, y) ==
    LET g == GCD(x[2], y[2])
    IN  Frac(x[1] * (y[2] \div g) + y[1] * (x[2] \div g), (x[2] \div g) * y[2])

FracSub(x, y) == FracAdd(x, <<0 - y[1], y[2]>>)

\* x > y, by the sign of the difference
FracGT(x, y) == FracSub(x, y)[1] > 0

FracMul(x, y) ==
    LET g1 == GCD(x[1], y[2])
        g2 == GCD(y[1], x[2])
    IN  Frac((x[1] \div g1) * (y[1] \div g2), (x[2] \div g2) * (y[2] \div g1))

\* x * n / d for integers n and d > 0
FracScale(x, n, d) == FracMul(x, Frac(n, d))

--------------------------------------------------------------------------
(* RiskManager: src/rai_algo/risk.py *)

DailyStats(day, balance) ==
    [date |-> day, starting_balance |-> balance, current_balance |-> balance,
     total_pnl |-> 0, realized_pnl |-> 0, trades_count |-> 0, orders_count |-> 0,
     orders_by_hour |-> [h \in 0..MaxHour |-> 0],
     max_drawdown |-> <<0, 1>>, peak_balance |-> balance]

ResetDailyStatsMutantKeepsCounts(r, today) ==
    IF r.daily_stats.date # today
    THEN [r EXCEPT !.daily_stats =
                      [DailyStats(today, r.current_balance) EXCEPT
                          !.orders_count = r.daily_stats.orders_count,
                          !.orders_by_hour = r.daily_stats.orders_by_hour]]
    ELSE r

\* _reset_daily_stats: a new DailyStats when the date changed
ResetDailyStats(r, today) ==
    IF r.daily_stats.date # today
    THEN [r EXCEPT !.daily_stats = DailyStats(today, r.current_balance)]
    ELSE r

\* __init__
NewRiskManager(initial_balance, today) ==
    [is_killed |-> FALSE, kill_reason |-> None, current_balance |-> initial_balance,
     daily_stats |-> DailyStats(today, initial_balance)]

\* kill: latches, and keeps the first reason
Kill(r, reason) ==
    IF ~r.is_killed
    THEN [r EXCEPT !.is_killed = TRUE, !.kill_reason = reason]
    ELSE r

\* reset_kill_switch
ResetKillSwitch(r) == [r EXCEPT !.is_killed = FALSE, !.kill_reason = None]

DailyLossReason == "Daily loss limit exceeded"
DrawdownReason == "Max drawdown exceeded"
MinBalanceReason == "Balance below minimum"

\* daily_loss_pct >= max_daily_loss, daily_loss_pct being 0 when starting_balance <= 0
DailyLossBreached(ds, b, lim) ==
    IF ds.starting_balance > 0
    THEN (ds.starting_balance - b) * 100 >= lim.max_daily_loss * ds.starting_balance
    ELSE 0 >= lim.max_daily_loss

\* update_balance up to the drawdown division: the rollover, the balances, total_pnl, the peak
UpdateBalanceHead(r, today, b) ==
    LET r1 == ResetDailyStats(r, today)
        ds == r1.daily_stats
    IN  [r1 EXCEPT !.current_balance = b,
                   !.daily_stats.current_balance = b,
                   !.daily_stats.total_pnl = b - ds.starting_balance,
                   !.daily_stats.peak_balance = IF b > ds.peak_balance THEN b ELSE ds.peak_balance]

\* (peak_balance - new_balance) / peak_balance divides by zero when the peak is 0
UpdateBalanceRaises(r, today, b) == UpdateBalanceHead(r, today, b).daily_stats.peak_balance = 0

\* the three kill checks of update_balance, in the order of the code
UpdateBalanceChecks(r2, b, lim) ==
    LET ds == r2.daily_stats
        drawdown == Frac(ds.peak_balance - b, ds.peak_balance)
        maxdd == IF FracGT(drawdown, ds.max_drawdown) THEN drawdown ELSE ds.max_drawdown
        r3 == [r2 EXCEPT !.daily_stats.max_drawdown = maxdd]
        r4 == IF DailyLossBreached(ds, b, lim) THEN Kill(r3, DailyLossReason) ELSE r3
        r5 == IF FracGEPct(maxdd, lim.max_drawdown) THEN Kill(r4, DrawdownReason) ELSE r4
        r6 == IF b < lim.min_balance THEN Kill(r5, MinBalanceReason) ELSE r5
    IN  r6

UpdateBalanceMutantRecover(r, today, b, lim) ==
    LET r2 == UpdateBalanceHead(r, today, b)
        r6 == IF r2.daily_stats.peak_balance = 0 THEN r2 ELSE UpdateBalanceChecks(r2, b, lim)
    IN  IF b >= r6.daily_stats.peak_balance /\ b >= lim.min_balance
        THEN ResetKillSwitch(r6) ELSE r6

\* update_balance: the state it leaves, also when the division raised
UpdateBalance(r, today, b, lim) ==
    LET r2 == UpdateBalanceHead(r, today, b)
    IN  IF r2.daily_stats.peak_balance = 0 THEN r2 ELSE UpdateBalanceChecks(r2, b, lim)

\* A Position as the risk manager reads it. An optional number that is None is 0
\* here: current_price 0 is falsy like None, and exit_time 0 means the position is open.
BookPositions ==
    { [symbol |-> "BTC", size |-> 1, entry_price |-> 40, current_price |-> 0, exit_time |-> 0],
      [symbol |-> "BTC", size |-> 1, entry_price |-> 40, current_price |-> 60, exit_time |-> 0],
      [symbol |-> "BTC", size |-> 1, entry_price |-> 60, current_price |-> 60, exit_time |-> 1] }

IsOpenLarge(p) == p.exit_time = 0 /\ p.current_price = 60

\* the positions dictionaries passed to validate_signal, as the set of their values
PositionBooks == { {} } \cup { {p} : p \in BookPositions }

\* ... and the two of them the kill-switch runs pass: no position, one large open position
KillBooks == { b \in PositionBooks : \A p \in b : IsOpenLarge(p) }

\* Position.is_open
IsOpen(pos) == pos.exit_time = 0

Notional(pos) ==
    pos.size * (IF pos.current_price # 0 THEN pos.current_price ELSE pos.entry_price)

RECURSIVE SumExposure(_)
SumExposure(book) ==
    IF book = {} THEN 0
    ELSE LET p == CHOOSE x \in book : TRUE
         IN  (IF IsOpen(p) THEN Notional(p) ELSE 0) + SumExposure(book \ {p})

\* check_position_size: position_pct (in 1/10000) against max_position_size
CheckPositionSize(signal, current_balance, lim) ==
    LET max_position_value == current_balance * lim.max_position_size
        position_value == max_position_value * signal.strength
        position_pct == IF current_balance > 0 THEN position_value \div current_balance ELSE 0
    IN  ~(position_pct > lim.max_position_size * 100)

\* check_total_exposure: open notional / balance against max_total_exposure
CheckTotalExposure(book, current_balance, lim) ==
    LET total_exposure == SumExposure(book)
    IN  IF current_balance > 0
        THEN ~(total_exposure * 100 > lim.max_total_exposure * current_balance)
        ELSE ~(0 > lim.max_total_exposure)

CheckOrderRateMutantOffByOne(r, hour, lim) ==
    IF r.daily_stats.orders_count > lim.max_orders_per_day THEN FALSE
    ELSE IF r.daily_stats.orders_by_hour[hour] > lim.max_orders_per_hour THEN FALSE
    ELSE TRUE

\* check_order_rate: the daily count, then the current hour's bucket
CheckOrderRate(r, hour, lim) ==
    IF r.daily_stats.orders_count >= lim.max_orders_per_day THEN FALSE
    ELSE IF r.daily_stats.orders_by_hour[hour] >= lim.max_orders_per_hour THEN FALSE
    ELSE TRUE

\* record_order
RecordOrder(r, hour) ==
    [r EXCEPT !.daily_stats.orders_count = @ + 1,
              !.daily_stats.orders_by_hour[hour] = @ + 1]

\* record_trade
RecordTrade(r, pnl) ==
    [r EXCEPT !.daily_stats.trades_count = @ + 1,
              !.daily_stats.realized_pnl = @ + pnl]

KilledReason == "Trading killed"
SizeReason == "Position size exceeds limit"
ExposureReason == "Total exposure exceeds limit"
RateReason == "Order rate limit exceeded"

ValidateSignalMutantRateFirst(r, signal, book, hour, lim) ==
    IF ~CheckOrderRate(r, hour, lim) THEN <<FALSE, RateReason>>
    ELSE IF r.is_killed THEN <<FALSE, KilledReason>>
    ELSE IF ~CheckPositionSize(signal, r.current_balance, lim) THEN <<FALSE, SizeReason>>
    ELSE IF signal.signal_type \in {"buy", "sell"}
            /\ ~CheckTotalExposure(book, r.current_balance, lim)
         THEN <<FALSE, ExposureReason>>
    ELSE <<TRUE, None>>

\* validate_signal: (is_valid, reason) of the first failing check
ValidateSignal(r, signal, book, hour, lim) ==
    IF r.is_killed THEN <<FALSE, KilledReason>>
    ELSE IF ~CheckPositionSize(signal, r.current_balance, lim) THEN <<FALSE, SizeReason>>
    ELSE IF signal.signal_type \in {"buy", "sell"}
            /\ ~CheckTotalExposure(book, r.current_balance, lim)
         THEN <<FALSE, ExposureReason>>
    ELSE IF ~CheckOrderRate(r, hour, lim) THEN <<FALSE, RateReason>>
    ELSE <<TRUE, None>>

\* validate_signal writes no field of the manager (it only reads)
ValidateSignalState(r, hour) == r

--------------------------------------------------------------------------
(* The execution engines: src/rai_algo/live_trader.py, src/rai_algo/demo_trader.py *)

NoSignal == [signal_type |-> None, strength |-> 0]

\* LiveTrader.__init__ / DemoTrader.__init__: the trader's state, with the main-loop
\* thread's position (pc) and its locals (signal, valid), and the calls made in the
\* current iteration (tickLog)
NewTrader ==
    [is_running |-> FALSE, is_paused |-> FALSE, stop_event |-> FALSE,
     positions |-> {}, market_data_history |-> << >>, evicted |-> FALSE, price |-> 0, open_orders |-> 0,
     pc |-> "not_started", signal |-> NoSignal, valid |-> <<TRUE, None>>,
     tickLog |-> << >>, stop_called |-> FALSE, prev_raised |-> FALSE]

\* DemoTraderConfig.slippage_rate = 0.0005 is 1/DemoSlippageDen
DemoSlippageDen == 2000
\* DemoTraderConfig.commission_rate = 0.001 is 1/DemoCommissionDen
DemoCommissionDen == 1000
\* the capital both traders start with (DemoTraderConfig.initial_capital, and the
\* initial_balance of the LiveTrader's RiskManager), in account units
InitialCapitals == {100}

\* virtual cash and capital are kept in 1/CashScale account units, prices of demo
\* positions and trades in 1/DemoSlippageDen
CashScale == DemoSlippageDen * DemoCommissionDen

\* the threads beside the main loop: the heartbeat thread's position and who wrote
\* last_heartbeat last (start() or the heartbeat loop); the caller inside stop() and
\* whether a join of its current stop() timed out; the effect of the last stop() call
\* since start(); the outcome of the last start() call; and the positions of the
\* heartbeat threads of earlier start() calls that have not ended yet
NewThreads ==
    [hb_pc |-> "not_started", last_heartbeat |-> "start",
     stop_pc |-> "none", join_timed_out |-> FALSE, last_stop |-> "none",
     last_start |-> "none", old_hb |-> << >>]

\* DemoTrader.__init__: virtual_capital, virtual_cash (in 1/CashScale units), trades
NewDemoAccount(initial_capital) ==
    [virtual_cash |-> initial_capital * CashScale,
     virtual_capital |-> initial_capital * CashScale, trades |-> << >>]

Log(t, event) == [t EXCEPT !.tickLog = Append(@, event)]

ExceptionHandlerMutantPropagates(t) == [Log(t, "exception") EXCEPT !.pc = "exited"]

\* the main loop's `except Exception`: log, sleep, next iteration
ExceptionHandler(t) == [Log(t, "exception") EXCEPT !.pc = "sleep"]

\* prices of the ticks the venue returns (MarketData.price)
Prices == {40}

\* what exchange.get_position returns: None, or the venue's position
LivePositions ==
    { [symbol |-> "BTC", size |-> 1, entry_price |-> 40, current_price |-> 40,
       exit_time |-> 0, signal_type |-> side] : side \in {"buy", "sell"} }

ExchangeBooks == { {} } \cup { {p} : p \in LivePositions }

\* balances the venue reports to the LiveTrader
LiveBalances == {95, 100}

AddMarketDataMutantKeepsOldest(t, market_data) ==
    LET appended == Append(t.market_data_history, market_data)
    IN  [t EXCEPT !.market_data_history =
                     IF Len(appended) > MaxHistoryLength
                     THEN SubSeq(appended, 1, MaxHistoryLength)
                     ELSE appended,
                  !.evicted = @ \/ Len(appended) > MaxHistoryLength]

\* _add_market_data: append, then keep the newest max_history_length; evicted records
\* that the history has been cut
AddMarketData(t, market_data) ==
    LET appended == Append(t.market_data_history, market_data)
    IN  [t EXCEPT !.market_data_history =
                     IF Len(appended) > MaxHistoryLength
                     THEN SubSeq(appended, Len(appended) - MaxHistoryLength + 1, Len(appended))
                     ELSE appended,
                  !.evicted = @ \/ Len(appended) > MaxHistoryLength]

\* _close_position: nothing without the position or without a tick in the history;
\* else the exit price with slippage, the commission, the PnL, the cash and capital,
\* an exit trade, and the position removed
DemoClosePosition(t, d, reason) ==
    IF t.positions = {} \/ t.market_data_history = << >> THEN <<t, d>>
    ELSE
      LET position == CHOOSE q \in t.positions : TRUE
          exit_price == IF position.side = "long" THEN t.price * (DemoSlippageDen - 1)
                        ELSE t.price * (DemoSlippageDen + 1)
          commission == position.size * exit_price
          gross_pnl == IF position.side = "long"
                       THEN (exit_price - position.entry_price) * position.size
                       ELSE (position.entry_price - exit_price) * position.size
          net_pnl == gross_pnl * DemoCommissionDen - commission
          cash == IF position.side = "long"
                  THEN d.virtual_cash + position.size * exit_price * DemoCommissionDen - commission
                  ELSE d.virtual_cash
                       + (position.size * position.entry_price * DemoCommissionDen) \div 10
                       + net_pnl
          trade == [type |-> IF reason = "stop_loss" THEN "sl"
                             ELSE IF reason = "take_profit" THEN "tp" ELSE "exit",
                    side |-> position.side, price |-> exit_price, size |-> position.size,
                    reason |-> reason, pnl |-> net_pnl]
      IN  << [t EXCEPT !.positions = {}],
             [d EXCEPT !.virtual_cash = cash, !.virtual_capital = cash,
                       !.trades = Append(@, trade)] >>

\* DemoTrader._check_exit_conditions: the stop-loss test, then the take-profit test,
\* against the tick's price (its close); 0 is an unset stop or target
DemoExitReason(position, current_price) ==
    IF position.stop_loss # 0
       /\ \/ position.side = "long" /\ current_price <= position.stop_loss
          \/ position.side = "short" /\ current_price >= position.stop_loss
    THEN "stop_loss"
    ELSE IF position.take_profit # 0
            /\ \/ position.side = "long" /\ current_price >= position.take_profit
               \/ position.side = "short" /\ current_price <= position.take_profit
    THEN "take_profit"
    ELSE None

StopFlagsMutantDropsPositions(t) ==
    [t EXCEPT !.is_running = FALSE, !.stop_event = TRUE, !.stop_called = TRUE,
              !.positions = {}]

\* stop(): nothing on a stopped trader; else clear is_running and set the stop event
\* (DemoTrader also closes every position), then join the threads
StopFlags(t) == [t EXCEPT !.is_running = FALSE, !.stop_event = TRUE, !.stop_called = TRUE]

\* LiveTrader._update_positions: the venue's position replaces the tracked one; an
\* exception of get_position is caught here and leaves the positions as they are
LiveUpdatePositions(raises, book) ==
    /\ engine = "live"
    /\ tr.pc = "update_positions"
    /\ tr' = [Log(tr, "get_position") EXCEPT
                 !.positions = IF raises THEN tr.positions ELSE book,
                 !.pc = "fetch"]
    /\ UNCHANGED <<riskVars, engine, cfg, demo, th, bt, opt>>

\* exchange.get_market_data and _add_market_data
LiveFetch(raises, price) ==
    /\ engine = "live"
    /\ tr.pc = "fetch"
    /\ tr' = IF raises THEN ExceptionHandler(Log(tr, "get_market_data"))
             ELSE [AddMarketData(Log(tr, "get_market_data"), price) EXCEPT
                      !.price = price, !.pc = "balance"]
    /\ UNCHANGED <<riskVars, engine, cfg, demo, th, bt, opt>>

\* exchange.get_balance and risk_manager.update_balance
LiveBalance(raises, b) ==
    /\ engine = "live"
    /\ tr.pc = "balance"
    /\ IF raises
       THEN /\ tr' = ExceptionHandler(Log(tr, "get_balance"))
            /\ UNCHANGED rm
       ELSE /\ rm' = UpdateBalance(rm, now.day, b, limits)
            /\ tr' = IF UpdateBalanceRaises(rm, now.day, b)
                     THEN ExceptionHandler(Log(tr, "update_balance"))
                     ELSE [Log(tr, "update_balance") EXCEPT !.pc = "signal"]
    /\ UNCHANGED <<limits, now, lastCall, engine, cfg, demo, th, bt, opt>>

IsHoldMutantWeakOnly(sig) == sig.signal_type = "hold" /\ sig.strength <= 100

\* the test of `if signal.signal_type != SignalType.HOLD`
IsHold(sig) == sig.signal_type = "hold"

GenerateSignalMutantIgnoresPause(t, raises, sig, next_pc, skip_pc) ==
    IF ~cfg.enable_auto_trading THEN [t EXCEPT !.pc = skip_pc]
    ELSE IF raises THEN ExceptionHandler(Log(t, "generate_signal"))
    ELSE [Log(t, "generate_signal") EXCEPT
             !.signal = sig,
             !.pc = IF ~IsHold(sig) THEN next_pc ELSE skip_pc]

\* `if not self.is_paused and self.config.enable_auto_trading`: strategy.generate_signal;
\* a non-HOLD signal goes to _process_signal
GenerateSignal(t, raises, sig, next_pc, skip_pc) ==
    IF t.is_paused \/ ~cfg.enable_auto_trading THEN [t EXCEPT !.pc = skip_pc]
    ELSE IF raises THEN ExceptionHandler(Log(t, "generate_signal"))
    ELSE [Log(t, "generate_signal") EXCEPT
             !.signal = sig,
             !.pc = IF ~IsHold(sig) THEN next_pc ELSE skip_pc]

LiveSignal(raises, sig) ==
    /\ engine = "live"
    /\ tr.pc = "signal"
    /\ tr' = GenerateSignal(tr, raises, sig, "validate", "update_state")
    /\ UNCHANGED <<riskVars, engine, cfg, demo, th, bt, opt>>

ProcessAcceptedMutantIgnoresVerdict(valid) == TRUE

\* _process_signal: `if not is_valid: return`
ProcessAccepted(valid) == valid[1]

\* _process_signal: risk_manager.validate_signal(signal, positions, symbol, price)
LiveValidate ==
    /\ engine = "live"
    /\ tr.pc = "validate"
    /\ LET valid == ValidateSignal(rm, tr.signal, tr.positions, now.hour, limits)
       IN  /\ rm' = ValidateSignalState(rm, now.hour)
           /\ tr' = [Log(tr, "validate_signal") EXCEPT
                        !.valid = valid,
                        !.pc = IF ProcessAccepted(valid) THEN "execute" ELSE "update_state"]
    /\ UNCHANGED <<limits, now, lastCall, engine, cfg, demo, th, bt, opt>>

\* whether _execute_buy / _execute_sell / _execute_close gets as far as placing an order
\* (dry run included): the position precondition and the quantity
ReachesOrder(t, balance_raises, b) ==
    CASE t.signal.signal_type = "buy" ->
            /\ t.positions = {}
            /\ ~balance_raises
            /\ b * limits.max_position_size * t.signal.strength > 0
      [] t.signal.signal_type = "sell" ->
            /\ t.positions # {}
            /\ \E q \in t.positions : q.size * t.signal.strength > 0
      [] OTHER -> t.positions # {}

\* _execute_buy, _execute_sell, _execute_close: with dry_run the order is only logged;
\* otherwise it is placed, kept in open_orders and recorded with the risk manager;
\* exceptions are caught here
LiveExecute(balance_raises, b, order_raises) ==
    /\ engine = "live"
    /\ tr.pc = "execute"
    /\ LET t1 == Log(tr, "execute_" \o tr.signal.signal_type)
           reaches == ReachesOrder(tr, balance_raises, b)
           places == reaches /\ ~cfg.dry_run /\ ~order_raises
       IN  IF places
           THEN /\ tr' = [Log(t1, "place_order") EXCEPT !.open_orders = @ + 1,
                                                        !.pc = "update_state"]
                /\ rm' = RecordOrder(rm, now.hour)
           ELSE /\ tr' = [(IF reaches /\ cfg.dry_run THEN Log(t1, "dry_run_order") ELSE t1)
                             EXCEPT !.pc = "update_state"]
                /\ UNCHANGED rm
    /\ UNCHANGED <<limits, now, lastCall, engine, cfg, demo, th, bt, opt>>

\* strategy.update_state(market_data, HOLD) when a position is tracked, then sleep
LiveUpdateState(raises) ==
    /\ engine = "live"
    /\ tr.pc = "update_state"
    /\ tr' = IF tr.positions # {} /\ raises THEN ExceptionHandler(Log(tr, "update_state"))
             ELSE [tr EXCEPT !.pc = "sleep"]
    /\ UNCHANGED <<riskVars, engine, cfg, demo, th, bt, opt>>

StopReturnsEarlyMutantNever(t) == FALSE

\* stop(): `if not self.is_running: return`
StopReturnsEarly(t) == ~t.is_running

\* the caller of stop(): no effect on a trader that is not running, else it goes on to
\* join the two threads
StopCall(h, early) ==
    IF early THEN [h EXCEPT !.last_stop = "noop"]
    ELSE [h EXCEPT !.last_stop = "effective", !.stop_pc = "join_main",
                   !.join_timed_out = FALSE]

\* LiveTrader.stop() up to the joins: the early return, or the flags
LiveStop ==
    /\ engine = "live"
    /\ th.stop_pc \in {"none", "returned"}
    /\ tr' = IF StopReturnsEarly(tr) THEN tr ELSE StopFlags(tr)
    /\ th' = StopCall(th, StopReturnsEarly(tr))
    /\ UNCHANGED <<riskVars, engine, cfg, demo, bt, opt>>

\* stop(): self._main_loop_thread.join(timeout=5.0) returns when the thread has ended
\* or when the timeout has passed
StopJoinMain ==
    /\ th.stop_pc = "join_main"
    /\ th' = [th EXCEPT !.stop_pc = "join_heartbeat",
                        !.join_timed_out = tr.pc # "exited"]
    /\ UNCHANGED <<riskVars, engine, cfg, tr, demo, bt, opt>>

\* stop(): self._heartbeat_thread.join(timeout=5.0), then stop() returns
StopJoinHeartbeat ==
    /\ th.stop_pc = "join_heartbeat"
    /\ th' = [th EXCEPT !.stop_pc = "returned",
                        !.join_timed_out = @ \/ th.hb_pc # "exited"]
    /\ UNCHANGED <<riskVars, engine, cfg, tr, demo, bt, opt>>

LoopConditionMutantForever(t) == TRUE

\* `while self.is_running and not self._stop_event.is_set()`, of both loops
LoopCondition(t) == t.is_running /\ ~t.stop_event

\* _heartbeat_loop: the loop test
HeartbeatTest ==
    /\ th.hb_pc = "loop_test"
    /\ th' = [th EXCEPT !.hb_pc = IF LoopCondition(tr) THEN "body" ELSE "exited"]
    /\ UNCHANGED <<riskVars, engine, cfg, tr, demo, bt, opt>>

\* _heartbeat_loop: one iteration. LiveTrader logs the status first (exchange.get_balance,
\* whose exception skips the write); then last_heartbeat is written; then the sleep
HeartbeatBody(raises) ==
    /\ th.hb_pc = "body"
    /\ th' = [th EXCEPT !.hb_pc = "loop_test",
                        !.last_heartbeat = IF engine = "live" /\ raises THEN @
                                           ELSE "heartbeat_loop"]
    /\ UNCHANGED <<riskVars, engine, cfg, tr, demo, bt, opt>>

\* start(): a running trader is left alone; LiveTrader also returns when the health
\* check fails; otherwise the flags are set and the loop thread started
Start(health_ok) ==
    /\ ~tr.is_running
    /\ tr.pc \in {"not_started", "exited"}
    /\ engine = "live" => health_ok
    /\ tr' = [tr EXCEPT !.is_running = TRUE, !.stop_event = FALSE, !.pc = "loop_test",
                        !.stop_called = FALSE, !.prev_raised = FALSE, !.tickLog = << >>]
    /\ th' = [NewThreads EXCEPT !.hb_pc = "loop_test", !.last_start = "started"]
    /\ UNCHANGED <<riskVars, engine, cfg, demo, bt, opt>>

\* whether a thread that is at pc has been started and has not ended
AliveThread(pc) == pc \notin {"not_started", "exited"}

\* start() returning early: `if self.is_running: return`, and in LiveTrader
\* `if not self.exchange.health_check(): return`
StartReturnsEarly(health_ok) ==
    /\ tr.is_running \/ (engine = "live" /\ ~health_ok)
    /\ th' = [th EXCEPT !.last_start = IF tr.is_running THEN "already_running"
                                       ELSE "unhealthy"]
    /\ UNCHANGED <<riskVars, engine, cfg, tr, demo, bt, opt>>

\* start() on a stopped trader whose heartbeat thread is still alive (stop() does not
\* wait for it beyond join(timeout=5.0), and it sleeps heartbeat_interval = 30 s): the
\* flags are set and two new threads started as in Start; nothing ends the earlier
\* thread, which goes on from where it is. The main-loop thread of the earlier start()
\* has ended, as in Start.
Restart(health_ok) ==
    /\ ~tr.is_running
    /\ tr.pc = "exited"
    /\ AliveThread(th.hb_pc)
    /\ Len(th.old_hb) < MaxOldThreads
    /\ engine = "live" => health_ok
    /\ tr' = [tr EXCEPT !.is_running = TRUE, !.stop_event = FALSE, !.pc = "loop_test",
                        !.stop_called = FALSE, !.prev_raised = FALSE, !.tickLog = << >>]
    /\ th' = [NewThreads EXCEPT !.hb_pc = "loop_test", !.last_start = "started",
                                !.old_hb = Append(th.old_hb, th.hb_pc)]
    /\ UNCHANGED <<riskVars, engine, cfg, demo, bt, opt>>

\* one step of a heartbeat thread of an earlier start(): the loop test, which reads the
\* flags as they are now, or the body, as HeartbeatTest and HeartbeatBody
OldHeartbeatStep(i, raises) ==
    /\ i \in DOMAIN th.old_hb
    /\ th' = IF th.old_hb[i] = "loop_test"
             THEN IF LoopCondition(tr)
                  THEN [th EXCEPT !.old_hb[i] = "body"]
                  ELSE [th EXCEPT !.old_hb = SubSeq(@, 1, i - 1) \o SubSeq(@, i + 1, Len(@))]
             ELSE [th EXCEPT !.old_hb[i] = "loop_test",
                             !.last_heartbeat = IF engine = "live" /\ raises THEN @
                                                ELSE "heartbeat_loop"]
    /\ UNCHANGED <<riskVars, engine, cfg, tr, demo, bt, opt>>

\* LiveTrader.pause() / resume() (DemoTrader has neither)
Pause ==
    /\ engine = "live"
    /\ ~tr.is_paused
    /\ tr' = [tr EXCEPT !.is_paused = TRUE]
    /\ UNCHANGED <<riskVars, engine, cfg, demo, th, bt, opt>>

Resume ==
    /\ tr.is_paused
    /\ tr' = [tr EXCEPT !.is_paused = FALSE]
    /\ UNCHANGED <<riskVars, engine, cfg, demo, th, bt, opt>>

\* `while self.is_running and not self._stop_event.is_set()`
LoopTest ==
    /\ tr.pc = "loop_test"
    /\ tr' = IF LoopCondition(tr)
             THEN [tr EXCEPT !.pc = IF engine = "live" THEN "update_positions" ELSE "fetch",
                             !.tickLog = << >>, !.signal = NoSignal,
                             !.valid = <<TRUE, None>>,
                             !.prev_raised = "exception" \in { tr.tickLog[i] : i \in DOMAIN tr.tickLog }]
             ELSE [tr EXCEPT !.pc = "exited"]
    /\ UNCHANGED <<riskVars, engine, cfg, demo, th, bt, opt>>

\* time.sleep(data_interval), at the end of the iteration or in the except clause
Sleep ==
    /\ tr.pc = "sleep"
    /\ tr' = [tr EXCEPT !.pc = "loop_test"]
    /\ UNCHANGED <<riskVars, engine, cfg, demo, th, bt, opt>>

\* DemoTrader main loop: exchange.get_market_data, _add_market_data, _update_positions_pnl
DemoFetch(raises, price) ==
    /\ engine = "demo"
    /\ tr.pc = "fetch"
    /\ tr' = IF raises THEN ExceptionHandler(Log(tr, "get_market_data"))
             ELSE [AddMarketData(Log(tr, "get_market_data"), price) EXCEPT
                      !.price = price,
                      !.positions = { [q EXCEPT !.current_price = price] : q \in tr.positions },
                      !.pc = "check_exit"]
    /\ UNCHANGED <<riskVars, engine, cfg, demo, th, bt, opt>>

\* DemoTrader._check_exit_conditions: closes the position when its stop or target is hit
DemoCheckExit ==
    /\ engine = "demo"
    /\ tr.pc = "check_exit"
    /\ LET t1 == [Log(tr, "check_exit_conditions") EXCEPT !.pc = "signal"]
           reasons == { DemoExitReason(q, tr.price) : q \in tr.positions } \ {None}
       IN  IF reasons = {}
           THEN tr' = t1 /\ UNCHANGED demo
           ELSE LET closed == DemoClosePosition(t1, demo, CHOOSE r \in reasons : TRUE)
                IN  tr' = closed[1] /\ demo' = closed[2]
    /\ UNCHANGED <<riskVars, engine, cfg, th, bt, opt>>

\* DemoTrader main loop: strategy.generate_signal, a non-HOLD signal to _process_signal
DemoSignal(raises, sig) ==
    /\ engine = "demo"
    /\ tr.pc = "signal"
    /\ tr' = GenerateSignal(tr, raises, sig, "process", "equity")
    /\ UNCHANGED <<riskVars, engine, cfg, demo, th, bt, opt>>

\* DemoTrader._process_signal: its first test reads SignalType.LONG, which the
\* SignalType enum (BUY, SELL, HOLD, CLOSE) does not have: AttributeError, caught by
\* the main loop
DemoProcessSignal ==
    /\ engine = "demo"
    /\ tr.pc = "process"
    /\ tr' = ExceptionHandler(Log(tr, "process_signal"))
    /\ UNCHANGED <<riskVars, engine, cfg, demo, th, bt, opt>>

\* DemoTrader._update_equity_curve, then sleep
DemoEquity ==
    /\ engine = "demo"
    /\ tr.pc = "equity"
    /\ tr' = [Log(tr, "update_equity_curve") EXCEPT !.pc = "sleep"]
    /\ UNCHANGED <<riskVars, engine, cfg, demo, th, bt, opt>>

\* DemoTrader.stop(): the flags, then _close_position for every position
DemoStop ==
    /\ engine = "demo"
    /\ th.stop_pc \in {"none", "returned"}
    /\ LET closed == IF StopReturnsEarly(tr) THEN <<tr, demo>>
                     ELSE DemoClosePosition(StopFlags(tr), demo, "stopped")
       IN  tr' = closed[1] /\ demo' = closed[2]
    /\ th' = StopCall(th, StopReturnsEarly(tr))
    /\ UNCHANGED <<riskVars, engine, cfg, bt, opt>>

--------------------------------------------------------------------------
(* BacktestEngine: src/rai_algo/backtest.py *)

\* the engine explored: BacktestEngine(initial_capital, commission, slippage) with
\* commission = 1/BtCommissionDen and slippage = 1/BtSlippageDen
BtInitialCapital == 100

BtCommissionDen == 100

BtSlippageDen == 10

\* position_size_pct = 1.0, in percent
PositionSizePct == 100

\* strategy.parameters: without, or with, stop_loss_pct and take_profit_pct (percent)
StrategyParameters ==
    { [name |-> "strategy"],
      [name |-> "strategy", stop_loss_pct |-> 20, take_profit_pct |-> 50] }

\* the bars of the input: flat, a rally, a dip, and a dip that closes higher
BarShapes ==
    { [price |-> 10, low |-> 10, high |-> 10],
      [price |-> 20, low |-> 10, high |-> 20],
      [price |-> 10, low |-> 5, high |-> 10],
      [price |-> 12, low |-> 5, high |-> 12] }

Bars ==
    { [timestamp |-> t, price |-> sh.price, low |-> sh.low, high |-> sh.high] :
         t \in 1..MaxBars, sh \in BarShapes }

\* market_data arguments: up to MaxBars bars, in any order, with distinct timestamps
MarketDataInputs ==
    UNION { { md \in [1..n -> Bars] :
                \A i, j \in 1..n : i # j => md[i].timestamp # md[j].timestamp } :
            n \in 0..MaxBars }

\* Position: prices in 1/BtSlippageDen, stop_loss and take_profit in
\* 1/(100 * BtSlippageDen), size a fraction; 0 is None
NoPosition ==
    [entry_time |-> 0, entry_price |-> 0, size |-> <<0, 1>>, signal_type |-> None,
     stop_loss |-> 0, take_profit |-> 0, exit_time |-> 0, exit_price |-> 0]

\* Position.is_open
BtIsOpen(position) == position.exit_time = 0

\* Position.pnl (of a closed position)
PositionPnl(position) ==
    IF position.signal_type = "buy"
    THEN FracScale(position.size, position.exit_price - position.entry_price, BtSlippageDen)
    ELSE FracScale(position.size, position.entry_price - position.exit_price, BtSlippageDen)

UpdateExitMutantKeepsOpen(position, timestamp, price) == position

\* Position.update_exit
UpdateExit(position, timestamp, price) ==
    [position EXCEPT !.exit_time = timestamp, !.exit_price = price]

CheckExitConditionsMutantNever(position, market_data) == FALSE

\* _check_exit_conditions: stop loss or take profit against the bar's low and high
CheckExitConditions(position, market_data) ==
    LET low == market_data.low * 100 * BtSlippageDen
        high == market_data.high * 100 * BtSlippageDen
    IN  IF position.signal_type = "buy"
        THEN \/ position.stop_loss # 0 /\ low <= position.stop_loss
             \/ position.take_profit # 0 /\ high >= position.take_profit
        ELSE \/ position.stop_loss # 0 /\ high >= position.stop_loss
             \/ position.take_profit # 0 /\ low <= position.take_profit

\* _apply_slippage: the price in 1/BtSlippageDen; is_entry is not read
ApplySlippage(price, signal_type, is_entry) ==
    IF signal_type = "buy" THEN price * (BtSlippageDen + 1)
    ELSE price * (BtSlippageDen - 1)

\* _calculate_position_size, for a price in 1/BtSlippageDen
CalculatePositionSize(capital, price) ==
    FracScale(capital, PositionSizePct * BtSlippageDen, 100 * price)

\* _calculate_pnl
CalculatePnl(position, exit_price) ==
    IF position.signal_type = "buy"
    THEN FracScale(position.size, exit_price - position.entry_price, BtSlippageDen)
    ELSE FracScale(position.size, position.entry_price - exit_price, BtSlippageDen)

\* size * price * commission
CommissionCost(size, price) == FracScale(size, price, BtSlippageDen * BtCommissionDen)

DrawdownMutantOverCapital(peak_equity, capital) ==
    FracMul(FracMul(FracSub(peak_equity, capital), <<capital[2], capital[1]>>),
            <<100, 1>>)

\* (peak_equity - capital) / peak_equity * 100
Drawdown(peak_equity, capital) ==
    FracMul(FracMul(FracSub(peak_equity, capital), <<peak_equity[2], peak_equity[1]>>),
            <<100, 1>>)

\* BaseStrategy.get_required_history_length(): 1 unless the strategy overrides it
DefaultLookback == 1

HistoryMutantIncludesCurrent(market_data, i, lookback) ==
    SubSeq(market_data, IF i - lookback > 1 THEN i - lookback ELSE 1, i)

\* history = market_data[max(0, i - lookback):i], for the bar at index i (from 1)
History(market_data, i, lookback) ==
    SubSeq(market_data, IF i - lookback > 1 THEN i - lookback ELSE 1, i - 1)

\* the state of no run: BacktestEngine.run has not been called
NoBacktest ==
    [pc |-> "idle", input |-> << >>, parameters |-> [name |-> "strategy"],
     lookback |-> DefaultLookback,
     market_data |-> << >>, i |-> 0, reset_called |-> FALSE,
     capital |-> <<0, 1>>, positions |-> << >>, current_position |-> NoPosition,
     equity_curve |-> << >>, drawdown_curve |-> << >>, peak_equity |-> <<0, 1>>,
     calls |-> << >>, fills |-> << >>, opened |-> 0, signal |-> NoSignal,
     error |-> None, result |-> [returned |-> FALSE]]

\* the close of the open position at a bar: exit price with slippage, commission, PnL,
\* update_exit, capital, the trade list and the curves
ClosePosition(b, bar, reason) ==
    LET position == b.current_position
        exit_price == ApplySlippage(bar.price, position.signal_type, FALSE)
        commission_cost == CommissionCost(position.size, exit_price)
        pnl == CalculatePnl(position, exit_price)
        capital == FracAdd(b.capital, FracSub(pnl, commission_cost))
        peak == IF FracGT(capital, b.peak_equity) THEN capital ELSE b.peak_equity
    IN  [b EXCEPT
            !.capital = capital,
            !.positions = Append(@, UpdateExit(position, bar.timestamp, exit_price)),
            !.current_position = NoPosition,
            !.equity_curve = Append(@, capital),
            !.peak_equity = peak,
            !.drawdown_curve = Append(@, Drawdown(peak, capital)),
            !.fills = Append(@, [bar |-> bar.timestamp, is_entry |-> FALSE,
                                 signal_type |-> position.signal_type, reason |-> reason,
                                 price |-> bar.price, fill |-> exit_price])]

\* the entry on a BUY or SELL signal while flat
OpenPosition(b, bar, signal_type) ==
    LET entry_price == ApplySlippage(bar.price, signal_type, TRUE)
        position_size == CalculatePositionSize(b.capital, entry_price)
        capital == FracSub(b.capital, CommissionCost(position_size, entry_price))
        has_sl == "stop_loss_pct" \in DOMAIN b.parameters
        has_tp == "take_profit_pct" \in DOMAIN b.parameters
        position ==
            [entry_time |-> bar.timestamp, entry_price |-> entry_price,
             size |-> position_size, signal_type |-> signal_type,
             stop_loss |-> IF ~has_sl THEN 0
                           ELSE IF signal_type = "buy"
                                THEN entry_price * (100 - b.parameters.stop_loss_pct)
                                ELSE entry_price * (100 + b.parameters.stop_loss_pct),
             take_profit |-> IF ~has_tp THEN 0
                             ELSE IF signal_type = "buy"
                                  THEN entry_price * (100 + b.parameters.take_profit_pct)
                                  ELSE entry_price * (100 - b.parameters.take_profit_pct),
             exit_time |-> 0, exit_price |-> 0]
    IN  [b EXCEPT
            !.capital = capital,
            !.current_position = position,
            !.opened = @ + 1,
            !.equity_curve = Append(@, capital),
            !.drawdown_curve = Append(@, Drawdown(b.peak_equity, capital)),
            !.fills = Append(@, [bar |-> bar.timestamp, is_entry |-> TRUE,
                                 signal_type |-> signal_type, reason |-> "entry",
                                 price |-> bar.price, fill |-> entry_price])]

\* float('inf') as a fraction
Infinity == <<1, 0>>

\* winning_trades = [p for p in positions if p.pnl and p.pnl > 0], as indices
WinningTrades(positions) ==
    { k \in DOMAIN positions :
         PositionPnl(positions[k])[1] # 0 /\ PositionPnl(positions[k])[1] > 0 }

\* losing_trades = [p for p in positions if p.pnl and p.pnl <= 0], as indices
LosingTrades(positions) ==
    { k \in DOMAIN positions :
         PositionPnl(positions[k])[1] # 0 /\ PositionPnl(positions[k])[1] <= 0 }

\* sum(p.pnl for p in trades), of the positions at the indices ks
RECURSIVE SumPnl(_, _)
SumPnl(positions, ks) ==
    IF ks = {} THEN <<0, 1>>
    ELSE LET k == CHOOSE x \in ks : TRUE
         IN  FracAdd(PositionPnl(positions[k]), SumPnl(positions, ks \ {k}))

\* abs() of a fraction
FracAbs(x) == IF x[1] < 0 THEN <<0 - x[1], x[2]>> ELSE x

ProfitFactorMutantRatioOnly(positions) ==
    LET total_profit == SumPnl(positions, WinningTrades(positions))
        total_loss == FracAbs(SumPnl(positions, LosingTrades(positions)))
    IN  IF total_loss[1] > 0
        THEN FracMul(total_profit, <<total_loss[2], total_loss[1]>>)
        ELSE <<0, 1>>

\* profit_factor of a run with trades
ProfitFactor(positions) ==
    LET total_profit == SumPnl(positions, WinningTrades(positions))
        total_loss == FracAbs(SumPnl(positions, LosingTrades(positions)))
    IN  IF total_loss[1] > 0
        THEN FracMul(total_profit, <<total_loss[2], total_loss[1]>>)
        ELSE IF total_profit[1] > 0 THEN Infinity ELSE <<0, 1>>

\* max(drawdown_curve) if drawdown_curve else 0.0
RECURSIVE MaxDrawdown(_)
MaxDrawdown(drawdown_curve) ==
    IF drawdown_curve = << >> THEN <<0, 1>>
    ELSE LET rest == MaxDrawdown(Tail(drawdown_curve))
         IN  IF Len(drawdown_curve) = 1 \/ FracGT(Head(drawdown_curve), rest)
             THEN Head(drawdown_curve) ELSE rest

\* _calculate_metrics: the counts, the return, the profit factor, the maximum drawdown
\* and the lists of the BacktestResult
CalculateMetrics(b) ==
    LET positions == b.positions
        Wins == WinningTrades(positions)
        Losses == LosingTrades(positions)
    IN  IF positions = << >>
        THEN [returned |-> TRUE, total_trades |-> 0, winning_trades |-> 0,
              losing_trades |-> 0, total_return |-> <<0, 1>>,
              profit_factor |-> <<0, 1>>, max_drawdown_pct |-> <<0, 1>>,
              trades |-> positions,
              equity_curve |-> b.equity_curve, drawdown_curve |-> b.drawdown_curve]
        ELSE [returned |-> TRUE, total_trades |-> Len(positions),
              winning_trades |-> Cardinality(Wins), losing_trades |-> Cardinality(Losses),
              total_return |-> FracSub(b.equity_curve[Len(b.equity_curve)],
                                       <<BtInitialCapital, 1>>),
              profit_factor |-> ProfitFactor(positions),
              max_drawdown_pct |-> MaxDrawdown(b.drawdown_curve),
              trades |-> positions,
              equity_curve |-> b.equity_curve, drawdown_curve |-> b.drawdown_curve]

RunRejectsMutantResetsFirst(b) ==
    [b EXCEPT !.pc = "raised", !.error = "ValueError", !.reset_called = TRUE]

\* `if not market_data: raise ValueError(...)`, the first statement of run()
RunRejects(b) == [b EXCEPT !.pc = "raised", !.error = "ValueError"]

\* run(): the empty-input test, the sort by timestamp, strategy.reset() and the locals
BtRun ==
    /\ bt.pc = "idle"
    /\ bt' = IF bt.input = << >>
             THEN RunRejects(bt)
             ELSE [bt EXCEPT
                      !.pc = "exit_check",
                      !.market_data = SortSeq(bt.input,
                                              LAMBDA x, y : x.timestamp < y.timestamp),
                      !.reset_called = TRUE,
                      !.i = 1,
                      !.capital = <<BtInitialCapital, 1>>,
                      !.equity_curve = << <<BtInitialCapital, 1>> >>,
                      !.drawdown_curve = << <<0, 1>> >>,
                      !.peak_equity = <<BtInitialCapital, 1>>]
    /\ UNCHANGED <<riskVars, execVars, opt>>

\* the head of the bar loop: the exit test of the open position and its close
BtCheckExit ==
    /\ bt.pc = "exit_check"
    /\ LET bar == bt.market_data[bt.i]
           b1 == [bt EXCEPT !.pc = "signal"]
       IN  bt' = IF /\ bt.current_position # NoPosition
                    /\ BtIsOpen(bt.current_position)
                    /\ CheckExitConditions(bt.current_position, bar)
                 THEN ClosePosition(b1, bar, "exit_check")
                 ELSE b1
    /\ UNCHANGED <<riskVars, execVars, opt>>

BtSignalActionMutantReverses(signal_type, has_position) ==
    IF signal_type \in {"buy", "sell"} THEN "open"
    ELSE IF signal_type = "close" /\ has_position THEN "close"
    ELSE "none"

\* what run does with a signal: `signal_type in [BUY, SELL] and current_position is None`
\* opens, `signal_type == CLOSE and current_position` closes, anything else does nothing
BtSignalAction(signal_type, has_position) ==
    IF signal_type \in {"buy", "sell"} /\ ~has_position THEN "open"
    ELSE IF signal_type = "close" /\ has_position THEN "close"
    ELSE "none"

\* the rest of the bar: strategy.generate_signal (an exception leaves run), the entry or
\* the close it asks for, strategy.update_state, and the next bar
BtSignal(raises, signal) ==
    /\ bt.pc = "signal"
    /\ LET bar == bt.market_data[bt.i]
           signal_type == signal.signal_type
           b1 == [bt EXCEPT
                     !.signal = signal,
                     !.calls = Append(@, [bar |-> bt.i,
                                          market_data |-> bar,
                                          history |-> History(bt.market_data, bt.i,
                                                              bt.lookback),
                                          current_position |-> bt.current_position,
                                          trades |-> Len(bt.positions)]),
                     !.i = IF bt.i < Len(bt.market_data) THEN bt.i + 1 ELSE bt.i,
                     !.pc = IF bt.i < Len(bt.market_data) THEN "exit_check" ELSE "final"]
       IN  bt' = IF raises THEN [bt EXCEPT !.pc = "raised", !.error = "Exception"]
                 ELSE CASE BtSignalAction(signal_type, bt.current_position # NoPosition) = "open"
                             -> OpenPosition(b1, bar, signal_type)
                        [] BtSignalAction(signal_type, bt.current_position # NoPosition) = "close"
                             -> ClosePosition(b1, bar, "close")
                        [] OTHER -> b1
    /\ UNCHANGED <<riskVars, execVars, opt>>

\* after the last bar: the forced close of a position still open, and the metrics
BtFinish ==
    /\ bt.pc = "final"
    /\ LET final_data == bt.market_data[Len(bt.market_data)]
           closed == ClosePosition(bt, final_data, "final")
           b1 == IF bt.current_position # NoPosition /\ BtIsOpen(bt.current_position)
                 THEN [closed EXCEPT
                          !.current_position = closed.positions[Len(closed.positions)]]
                 ELSE bt
       IN  bt' = [b1 EXCEPT !.pc = "done", !.result = CalculateMetrics(b1)]
    /\ UNCHANGED <<riskVars, execVars, opt>>

--------------------------------------------------------------------------
(* Optimizer: src/rai_algo/optimizer.py *)

\* the list [1, ..., n] of parameter values
ValueList(n) == [k \in 1..n |-> k]

\* parameter_grid arguments, as the items of the dict in order: no parameter, one
\* parameter, two parameters; a list may be empty
ParameterGrids ==
    { << >> }
    \cup { << [name |-> "stop_loss_pct", values |-> ValueList(n)] >> :
             n \in 0..MaxGridValues }
    \cup { << [name |-> "stop_loss_pct", values |-> ValueList(n)],
              [name |-> "take_profit_pct", values |-> ValueList(2)] >> :
             n \in 0..MaxGridValues }

\* self.objective: two of the known metrics, and a name _get_objective_score rejects
Objectives == {"sharpe_ratio", "total_return_pct", "unknown"}

\* the metrics of the BacktestResult a run returns
ResultMetrics ==
    { [sharpe_ratio |-> 1, total_return_pct |-> 2],
      [sharpe_ratio |-> 2, total_return_pct |-> 1],
      [sharpe_ratio |-> 2, total_return_pct |-> 2] }

\* best_backtest = None
NoResult == [run |-> 0, sharpe_ratio |-> 0, total_return_pct |-> 0]

\* itertools.product(*param_values): the tuples in product order, the last list
\* varying fastest; one empty tuple for no list
RECURSIVE Product(_)
Product(lists) ==
    IF lists = << >> THEN << << >> >>
    ELSE LET head == Head(lists)
             rest == Product(Tail(lists))
         IN  [k \in 1..(Len(head) * Len(rest)) |->
                 <<head[((k - 1) \div Len(rest)) + 1]>> \o rest[((k - 1) % Len(rest)) + 1]]

\* _get_objective_score: the metric named by the objective, ValueError for a name it
\* does not know
GetObjectiveScore(objective, result) ==
    CASE objective = "sharpe_ratio" -> [raises |-> FALSE, score |-> result.sharpe_ratio]
      [] objective = "total_return_pct" ->
            [raises |-> FALSE, score |-> result.total_return_pct]
      [] OTHER -> [raises |-> TRUE, score |-> 0]

IsBetterMutantLastWins(score, best_score) ==
    best_score = << >> \/ score >= best_score[1]

\* `if score > best_score`; best_score is the empty tuple while it is float('-inf')
IsBetter(score, best_score) ==
    best_score = << >> \/ score > best_score[1]

\* the state of no call: Optimizer.optimize has not been called; tested records, per
\* combination tried, whether its backtest raised and whether it was skipped
NoOptimization ==
    [pc |-> "idle", parameter_grid |-> << >>, objective |-> "sharpe_ratio",
     param_combinations |-> << >>, i |-> 0, all_results |-> << >>,
     best_score |-> << >>, best_params |-> << >>, best_backtest |-> NoResult,
     tested |-> << >>, error |-> None, result |-> [returned |-> FALSE]]

\* optimize(): the parameter combinations and the locals
OptOptimize ==
    /\ opt.pc = "idle"
    /\ opt' = [opt EXCEPT
                  !.pc = "loop",
                  !.param_combinations =
                      Product([p \in DOMAIN opt.parameter_grid |->
                                  opt.parameter_grid[p].values]),
                  !.i = 1]
    /\ UNCHANGED <<riskVars, execVars, bt>>

\* one iteration of the sweep: the backtest of a combination (it raises, or returns a
\* result with these metrics), its score, all_results, and the best so far; an
\* exception of the backtest or of the scoring skips the combination
OptCombination(raises, metrics) ==
    /\ opt.pc = "loop"
    /\ opt.i <= Len(opt.param_combinations)
    /\ LET params == opt.param_combinations[opt.i]
           result == [run |-> opt.i, sharpe_ratio |-> metrics.sharpe_ratio,
                      total_return_pct |-> metrics.total_return_pct]
           scored == GetObjectiveScore(opt.objective, result)
           skipped == raises \/ scored.raises
           o1 == [opt EXCEPT
                     !.i = @ + 1,
                     !.tested = Append(@, [run |-> opt.i, params |-> params,
                                           backtest_raised |-> raises,
                                           raised |-> skipped])]
           o2 == [o1 EXCEPT !.all_results = Append(@, [params |-> params,
                                                       result |-> result])]
       IN  opt' = IF skipped THEN o1
                  ELSE IF IsBetter(scored.score, opt.best_score)
                  THEN [o2 EXCEPT !.best_score = <<scored.score>>,
                                  !.best_params = params,
                                  !.best_backtest = result]
                  ELSE o2
    /\ UNCHANGED <<riskVars, execVars, bt>>

\* after the sweep: ValueError without a best backtest, else the OptimizationResult
OptFinish ==
    /\ opt.pc = "loop"
    /\ opt.i > Len(opt.param_combinations)
    /\ opt' = IF opt.best_backtest = NoResult
              THEN [opt EXCEPT !.pc = "raised", !.error = "ValueError"]
              ELSE [opt EXCEPT
                       !.pc = "done",
                       !.result = [returned |-> TRUE,
                                   best_parameters |-> opt.best_params,
                                   best_score |-> opt.best_score[1],
                                   best_backtest |-> opt.best_backtest,
                                   all_results |-> opt.all_results]]
    /\ UNCHANGED <<riskVars, execVars, bt>>

--------------------------------------------------------------------------
(* The RiskManager driven through its public methods *)

Signals == [signal_type : SignalTypes, strength : Strengths]

\* the kill-switch runs validate full-strength signals of every type
KillSignals == { sg \in Signals : sg.strength = 100 }

NoCall ==
    [op |-> "init", signal_type |-> None, strength |-> 0, exposure |-> 0,
     ok |-> TRUE, reason |-> None, balance |-> 0,
     raised |-> FALSE, size_ok |-> TRUE, exposure_ok |-> TRUE]

InitRiskWith(balances) ==
    /\ limits \in LimitConfigs
    /\ now = [day |-> 0, hour |-> 0]
    /\ \E b \in balances : rm = NewRiskManager(b, 0)
    /\ lastCall = NoCall

\* time passes to the next day (same clock hour)
NextDay ==
    /\ now.day < MaxDay
    /\ now' = [now EXCEPT !.day = @ + 1]
    /\ lastCall' = [NoCall EXCEPT !.op = "clock"]
    /\ UNCHANGED <<rm, limits>>

\* time passes: the next clock hour, or the first hour of the next day
ClockAdvance ==
    /\ \/ /\ now.hour < MaxHour
          /\ now' = [now EXCEPT !.hour = @ + 1]
       \/ /\ now.hour = MaxHour
          /\ now.day < MaxDay
          /\ now' = [day |-> now.day + 1, hour |-> 0]
    /\ lastCall' = [NoCall EXCEPT !.op = "clock"]
    /\ UNCHANGED <<rm, limits>>

RmUpdateBalance(b) ==
    /\ rm' = UpdateBalance(rm, now.day, b, limits)
    /\ lastCall' = [NoCall EXCEPT !.op = "update_balance", !.balance = b,
                                  !.raised = UpdateBalanceRaises(rm, now.day, b)]
    /\ UNCHANGED <<limits, now>>

RmValidateSignal(signal, book) ==
    LET res == ValidateSignal(rm, signal, book, now.hour, limits)
    IN  /\ rm' = ValidateSignalState(rm, now.hour)
        /\ lastCall' = [NoCall EXCEPT !.op = "validate_signal",
                                      !.signal_type = signal.signal_type,
                                      !.strength = signal.strength,
                                      !.exposure = SumExposure(book),
                                      !.ok = res[1], !.reason = res[2],
                                      !.size_ok = CheckPositionSize(signal, rm.current_balance, limits),
                                      !.exposure_ok = CheckTotalExposure(book, rm.current_balance, limits)]
        /\ UNCHANGED <<limits, now>>

RmRecordOrder(max) ==
    /\ rm.daily_stats.orders_count < max
    /\ rm' = RecordOrder(rm, now.hour)
    /\ lastCall' = [NoCall EXCEPT !.op = "record_order"]
    /\ UNCHANGED <<limits, now>>

RmRecordTrade(pnl) ==
    /\ rm.daily_stats.trades_count < MaxTrades
    /\ rm' = RecordTrade(rm, pnl)
    /\ lastCall' = [NoCall EXCEPT !.op = "record_trade"]
    /\ UNCHANGED <<limits, now>>

RmKill ==
    /\ rm' = Kill(rm, "manual")
    /\ lastCall' = [NoCall EXCEPT !.op = "kill"]
    /\ UNCHANGED <<limits, now>>

RmResetKillSwitch ==
    /\ rm' = ResetKillSwitch(rm)
    /\ lastCall' = [NoCall EXCEPT !.op = "reset_kill_switch"]
    /\ UNCHANGED <<limits, now>>

\* the RiskManager alone: no trader is constructed
NoTrader ==
    /\ engine = "none"
    /\ cfg = [dry_run |-> FALSE, enable_auto_trading |-> TRUE]
    /\ tr = NewTrader
    /\ demo = NewDemoAccount(0)
    /\ th = NewThreads
    /\ bt = NoBacktest
    /\ opt = NoOptimization

\* kill-switch runs: every balance, few orders
InitRisk == InitRiskWith(Balances) /\ NoTrader

NextRisk ==
    \/ NextDay /\ UNCHANGED <<execVars, bt, opt>>
    \/ \E b \in Balances : RmUpdateBalance(b) /\ UNCHANGED <<execVars, bt, opt>>
    \/ \E signal \in KillSignals, book \in KillBooks :
          RmValidateSignal(signal, book) /\ UNCHANGED <<execVars, bt, opt>>
    \/ RmRecordOrder(MaxOrdersKill) /\ UNCHANGED <<execVars, bt, opt>>
    \/ \E pnl \in PnLs : RmRecordTrade(pnl) /\ UNCHANGED <<execVars, bt, opt>>
    \/ RmKill /\ UNCHANGED <<execVars, bt, opt>>
    \/ RmResetKillSwitch /\ UNCHANGED <<execVars, bt, opt>>

SpecRisk == InitRisk /\ [][NextRisk]_vars

\* order-rate runs: two balances (one of them a daily-loss breach), orders up to the caps
InitRate == InitRiskWith(RateBalances) /\ NoTrader

NextRate ==
    \/ ClockAdvance /\ UNCHANGED <<execVars, bt, opt>>
    \/ \E b \in RateBalances : RmUpdateBalance(b) /\ UNCHANGED <<execVars, bt, opt>>
    \/ \E signal \in Signals, book \in PositionBooks :
          RmValidateSignal(signal, book) /\ UNCHANGED <<execVars, bt, opt>>
    \/ RmRecordOrder(MaxOrders) /\ UNCHANGED <<execVars, bt, opt>>
    \/ RmResetKillSwitch /\ UNCHANGED <<execVars, bt, opt>>

SpecRate == InitRate /\ [][NextRate]_vars

--------------------------------------------------------------------------
(* The execution engines driven by their threads and operators *)

\* LiveTrader.__init__ / DemoTrader.__init__ with their RiskManager
InitExec ==
    /\ engine \in {"live", "demo"}
    /\ cfg \in [dry_run : IF engine = "live" THEN BOOLEAN ELSE {FALSE},
                enable_auto_trading : BOOLEAN]
    /\ limits \in LimitConfigs
    /\ now = [day |-> 0, hour |-> 0]
    /\ \E capital \in InitialCapitals :
          /\ rm = NewRiskManager(capital, 0)
          /\ demo = IF engine = "demo" THEN NewDemoAccount(capital) ELSE NewDemoAccount(0)
    /\ th = NewThreads
    /\ bt = NoBacktest
    /\ opt = NoOptimization
    /\ lastCall = NoCall
    /\ tr = NewTrader

\* the operator's manual reset of the kill switch
ManualReset ==
    /\ rm.is_killed
    /\ rm' = ResetKillSwitch(rm)
    /\ UNCHANGED <<limits, now, lastCall, execVars, bt, opt>>

NextExec ==
    \/ \E health_ok \in BOOLEAN : Start(health_ok)
    \/ Pause
    \/ Resume
    \/ LiveStop
    \/ DemoStop
    \/ LoopTest
    \/ Sleep
    \/ \E raises \in BOOLEAN, book \in ExchangeBooks : LiveUpdatePositions(raises, book)
    \/ \E raises \in BOOLEAN, price \in Prices : LiveFetch(raises, price)
    \/ \E raises \in BOOLEAN, b \in LiveBalances : LiveBalance(raises, b)
    \/ \E raises \in BOOLEAN, sig \in KillSignals : LiveSignal(raises, sig)
    \/ LiveValidate
    \/ \E balance_raises \in BOOLEAN, b \in LiveBalances, order_raises \in BOOLEAN :
          LiveExecute(balance_raises, b, order_raises)
    \/ \E raises \in BOOLEAN : LiveUpdateState(raises)
    \/ \E raises \in BOOLEAN, price \in Prices : DemoFetch(raises, price)
    \/ DemoCheckExit
    \/ \E raises \in BOOLEAN, sig \in KillSignals : DemoSignal(raises, sig)
    \/ DemoProcessSignal
    \/ DemoEquity
    \/ ManualReset
    \/ NextDay /\ UNCHANGED <<execVars, bt, opt>>

SpecExec == InitExec /\ [][NextExec]_vars

--------------------------------------------------------------------------
(* The threads of one trader: the main loop, the heartbeat loop, and one operator
   calling start() and stop() in turn *)

\* the signals of the strategy in the thread runs
ThreadSignals == { sg \in KillSignals : sg.signal_type \in {"hold", "buy"} }

InitThreads ==
    /\ InitExec
    /\ cfg.enable_auto_trading
    /\ ~cfg.dry_run
    /\ limits.min_balance = 0

\* one step of the main-loop thread
MainLoopStep ==
    \/ LoopTest
    \/ Sleep
    \/ \E book \in ExchangeBooks : LiveUpdatePositions(FALSE, book)
    \/ \E raises \in BOOLEAN, price \in Prices : LiveFetch(raises, price)
    \/ \E capital \in InitialCapitals : LiveBalance(FALSE, capital)
    \/ \E sig \in ThreadSignals : LiveSignal(FALSE, sig)
    \/ LiveValidate
    \/ \E capital \in InitialCapitals : LiveExecute(FALSE, capital, FALSE)
    \/ LiveUpdateState(FALSE)
    \/ \E raises \in BOOLEAN, price \in Prices : DemoFetch(raises, price)
    \/ DemoCheckExit
    \/ \E sig \in ThreadSignals : DemoSignal(FALSE, sig)
    \/ DemoProcessSignal
    \/ DemoEquity

\* one step of the heartbeat thread
HeartbeatStep ==
    \/ HeartbeatTest
    \/ \E raises \in BOOLEAN : HeartbeatBody(raises)

NextThreads ==
    \/ th.stop_pc \in {"none", "returned"} /\ Start(TRUE)
    \/ LiveStop
    \/ DemoStop
    \/ StopJoinMain
    \/ StopJoinHeartbeat
    \/ MainLoopStep
    \/ HeartbeatStep

SpecThreads == InitThreads /\ [][NextThreads]_vars

\* every exchange and strategy call returns and both threads keep being scheduled
SpecThreadsFair ==
    InitThreads /\ [][NextThreads]_vars /\ WF_vars(MainLoopStep) /\ WF_vars(HeartbeatStep)

--------------------------------------------------------------------------
(* The rolling history of a trader over ticks of different prices *)

\* the prices of the ticks in the history runs
HistoryPrices == {40, 41, 42}

\* the strategy of the history runs holds
HistorySignals == { sg \in KillSignals : sg.signal_type = "hold" }

InitHistory ==
    /\ InitExec
    /\ ~cfg.dry_run
    /\ limits.min_balance = 0

NextHistory ==
    \/ Start(TRUE)
    \/ LiveStop
    \/ DemoStop
    \/ LoopTest
    \/ Sleep
    \/ LiveUpdatePositions(FALSE, {})
    \/ \E raises \in BOOLEAN, price \in HistoryPrices : LiveFetch(raises, price)
    \/ \E capital \in InitialCapitals : LiveBalance(FALSE, capital)
    \/ \E sig \in HistorySignals : LiveSignal(FALSE, sig)
    \/ LiveUpdateState(FALSE)
    \/ \E raises \in BOOLEAN, price \in HistoryPrices : DemoFetch(raises, price)
    \/ DemoCheckExit
    \/ \E sig \in HistorySignals : DemoSignal(FALSE, sig)
    \/ DemoEquity

SpecHistory == InitHistory /\ [][NextHistory]_vars

--------------------------------------------------------------------------
(* BacktestEngine.run on every input and every strategy *)

InitBt ==
    /\ limits \in { l \in LimitConfigs : l.min_balance = 0 }
    /\ now = [day |-> 0, hour |-> 0]
    /\ rm = NewRiskManager(BtInitialCapital, 0)
    /\ lastCall = NoCall
    /\ engine = "none"
    /\ cfg = [dry_run |-> FALSE, enable_auto_trading |-> TRUE]
    /\ tr = NewTrader
    /\ demo = NewDemoAccount(0)
    /\ th = NewThreads
    /\ \E md \in MarketDataInputs, parameters \in StrategyParameters :
          bt = [NoBacktest EXCEPT !.input = md, !.parameters = parameters]
    /\ opt = NoOptimization

\* the signals of the strategy in the backtest runs: every type at full strength, and
\* a HOLD of more than full strength
BtSignals == { sg \in Signals : sg.strength = 100 \/ sg.signal_type = "hold" }

NextBt ==
    \/ BtRun
    \/ BtCheckExit
    \/ \E raises \in BOOLEAN, signal \in BtSignals : BtSignal(raises, signal)
    \/ BtFinish

SpecBt == InitBt /\ [][NextBt]_vars

\* what the strategy's get_required_history_length() returns: none, one or two bars
Lookbacks == {0, 1, 2}

\* a run of a strategy with any of the lookbacks
InitLookback ==
    /\ limits \in { l \in LimitConfigs : l.min_balance = 0 }
    /\ now = [day |-> 0, hour |-> 0]
    /\ rm = NewRiskManager(BtInitialCapital, 0)
    /\ lastCall = NoCall
    /\ engine = "none"
    /\ cfg = [dry_run |-> FALSE, enable_auto_trading |-> TRUE]
    /\ tr = NewTrader
    /\ demo = NewDemoAccount(0)
    /\ th = NewThreads
    /\ \E md \in MarketDataInputs, lookback \in Lookbacks :
          bt = [NoBacktest EXCEPT !.input = md, !.lookback = lookback]
    /\ opt = NoOptimization

SpecLookback == InitLookback /\ [][NextBt]_vars

--------------------------------------------------------------------------
(* The bar-based engine of the package: src/rai_algo/backtest/core.py. A run of it
   keeps its locals in bt *)

\* the engine explored: BacktestEngine(initial_capital, FixedFeeModel(1/CoreFeeDen),
\* FixedSlippageModel(1/CoreSlippageDen))
CoreInitialCapital == 100

CoreFeeDen == 10

CoreSlippageDen == 10

\* what the strategy callback returns, in percent of the capital: short, flat, half
\* long, long, and a value above 1.0
TargetPositions == {0 - 100, 0, 50, 100, 200}

\* FixedSlippageModel.apply_slippage: a buy pays more, a sell receives less
CoreApplySlippage(price, is_buy) ==
    IF is_buy THEN FracScale(price, CoreSlippageDen + 1, CoreSlippageDen)
    ELSE FracScale(price, CoreSlippageDen - 1, CoreSlippageDen)

\* FixedFeeModel.calculate_fee: price * size * fee_rate
CalculateFee(price, size) == FracScale(FracMul(price, size), 1, CoreFeeDen)

\* the locals of run() before the call, with the price_data argument
NewCoreRun(price_data) ==
    [pc |-> "core_idle", input |-> price_data, price_data |-> << >>, i |-> 0,
     cash |-> <<0, 1>>, position_size |-> <<0, 1>>, position_entry_price |-> <<0, 1>>,
     position_entry_time |-> 0, position_is_long |-> TRUE, trades |-> << >>,
     equity_curve |-> << >>, timestamps |-> << >>, fees_entry |-> <<0, 1>>,
     error |-> None, result |-> [returned |-> FALSE]]

\* position_value: position_size * current_price of a long, -position_size *
\* current_price of a short (whose position_size is negative), 0.0 when flat
PositionValue(b, current_price) ==
    IF b.position_size[1] # 0
    THEN IF b.position_is_long THEN FracScale(b.position_size, current_price, 1)
         ELSE FracScale(b.position_size, 0 - current_price, 1)
    ELSE <<0, 1>>

\* the close of the position at a bar: exit price with slippage, exit fee, the net PnL
\* added to cash, and the Trade (fee_entry = 0.0)
CoreClose(b, bar) ==
    LET size == FracAbs(b.position_size)
        exit_price == CoreApplySlippage(<<bar.price, 1>>, ~b.position_is_long)
        fee_exit == CalculateFee(exit_price, size)
        gross_pnl == IF b.position_is_long
                     THEN FracMul(FracSub(exit_price, b.position_entry_price),
                                  b.position_size)
                     ELSE FracMul(FracSub(b.position_entry_price, exit_price), size)
        net_pnl == FracSub(gross_pnl, fee_exit)
    IN  [b EXCEPT
            !.cash = FracAdd(@, net_pnl),
            !.trades = Append(@, [entry_time |-> b.position_entry_time,
                                  exit_time |-> bar.timestamp,
                                  entry_price |-> b.position_entry_price,
                                  exit_price |-> exit_price, size |-> size,
                                  is_long |-> b.position_is_long,
                                  fee_entry |-> <<0, 1>>, fee_exit |-> fee_exit]),
            !.position_size = <<0, 1>>,
            !.position_entry_price = <<0, 1>>,
            !.position_entry_time = 0]

\* the entry for a target position (percent, not zero): the size from the cash, the
\* entry fee deducted from the cash
CoreOpen(b, bar, target_position) ==
    LET abs_target == IF target_position < 0 THEN 0 - target_position ELSE target_position
        target_capital == FracScale(b.cash, abs_target, 100)
        entry_price == CoreApplySlippage(<<bar.price, 1>>, target_position > 0)
        position_size_units == FracMul(target_capital, <<entry_price[2], entry_price[1]>>)
        fee_entry == CalculateFee(entry_price, position_size_units)
    IN  [b EXCEPT
            !.cash = FracSub(@, fee_entry),
            !.fees_entry = FracAdd(@, fee_entry),
            !.position_size = IF target_position > 0 THEN position_size_units
                              ELSE <<0 - position_size_units[1], position_size_units[2]>>,
            !.position_entry_price = entry_price,
            !.position_entry_time = bar.timestamp,
            !.position_is_long = target_position > 0]

\* the adjustment of the position to the strategy's target (in percent): nothing within
\* the threshold of 0.01; else the close of a position held, then the entry if the
\* target is not zero
CoreAdjust(b, bar, target_position) ==
    LET current_position_signal ==
            IF b.position_size[1] > 0 THEN 100
            ELSE IF b.position_size[1] < 0 THEN 0 - 100 ELSE 0
        difference == target_position - current_position_signal
        closed == IF b.position_size[1] # 0 THEN CoreClose(b, bar) ELSE b
    IN  IF difference > 1 \/ difference < 0 - 1
        THEN IF target_position > 1 \/ target_position < 0 - 1
             THEN CoreOpen(closed, bar, target_position)
             ELSE closed
        ELSE b

\* run(): the sort by timestamp and the locals; price_data['timestamp'].iloc[0] of an
\* empty frame raises IndexError
CoreRun ==
    /\ bt.pc = "core_idle"
    /\ bt' = IF bt.input = << >>
             THEN [bt EXCEPT !.pc = "core_raised", !.error = "IndexError"]
             ELSE LET sorted == SortSeq(bt.input, LAMBDA x, y : x.timestamp < y.timestamp)
                  IN  [bt EXCEPT
                         !.pc = "core_bar",
                         !.price_data = sorted,
                         !.i = 1,
                         !.cash = <<CoreInitialCapital, 1>>,
                         !.equity_curve = << <<CoreInitialCapital, 1>> >>,
                         !.timestamps = << sorted[1].timestamp >>]
    /\ UNCHANGED <<riskVars, execVars, opt>>

\* one bar of the loop: the strategy's target (0.0 when the callback raises), clipped
\* to [-1, 1], the adjustment, and the equity sample cash + position_value
CoreBar(raises, returned) ==
    /\ bt.pc = "core_bar"
    /\ LET bar == bt.price_data[bt.i]
           target_position == IF raises THEN 0
                              ELSE IF returned > 100 THEN 100
                              ELSE IF returned < 0 - 100 THEN 0 - 100 ELSE returned
           b1 == CoreAdjust(bt, bar, target_position)
           current_equity == FracAdd(b1.cash, PositionValue(b1, bar.price))
       IN  bt' = [b1 EXCEPT
                     !.equity_curve = Append(@, current_equity),
                     !.timestamps = Append(@, bar.timestamp),
                     !.i = IF bt.i < Len(bt.price_data) THEN bt.i + 1 ELSE bt.i,
                     !.pc = IF bt.i < Len(bt.price_data) THEN "core_bar" ELSE "core_final"]
    /\ UNCHANGED <<riskVars, execVars, opt>>

\* after the last bar: the close of a position still held, equity_curve[-1] = cash, and
\* the dictionary returned
CoreFinish ==
    /\ bt.pc = "core_final"
    /\ LET final_row == bt.price_data[Len(bt.price_data)]
           closed == CoreClose(bt, final_row)
           b1 == IF bt.position_size[1] # 0
                 THEN [closed EXCEPT
                          !.equity_curve = [@ EXCEPT ![Len(@)] = closed.cash]]
                 ELSE bt
       IN  bt' = [b1 EXCEPT
                     !.pc = "core_done",
                     !.result = [returned |-> TRUE, trades |-> b1.trades,
                                 equity_curve |-> b1.equity_curve,
                                 timestamps |-> b1.timestamps, cash |-> b1.cash,
                                 position |-> b1.position_size,
                                 initial_capital |-> CoreInitialCapital]]
    /\ UNCHANGED <<riskVars, execVars, opt>>

InitCore ==
    /\ limits \in { l \in LimitConfigs : l.min_balance = 0 }
    /\ now = [day |-> 0, hour |-> 0]
    /\ rm = NewRiskManager(CoreInitialCapital, 0)
    /\ lastCall = NoCall
    /\ engine = "none"
    /\ cfg = [dry_run |-> FALSE, enable_auto_trading |-> TRUE]
    /\ tr = NewTrader
    /\ demo = NewDemoAccount(0)
    /\ th = NewThreads
    /\ \E price_data \in MarketDataInputs : bt = NewCoreRun(price_data)
    /\ opt = NoOptimization

NextCore ==
    \/ CoreRun
    \/ \E raises \in BOOLEAN, returned \in TargetPositions : CoreBar(raises, returned)
    \/ CoreFinish

SpecCore == InitCore /\ [][NextCore]_vars

--------------------------------------------------------------------------
(* HOLD signals of every strength: a backtest run, or a trader session *)

\* the signals of the strategy in the sessions: HOLD at every strength, and a BUY
HoldSignals ==
    { sg \in Signals :
         sg.signal_type = "hold" \/ (sg.signal_type = "buy" /\ sg.strength = 100) }

InitHold == InitBt \/ InitThreads

NextHold ==
    \/ engine = "none" /\ NextBt
    \/ engine # "none" /\ Start(TRUE)
    \/ LiveStop
    \/ DemoStop
    \/ LoopTest
    \/ Sleep
    \/ \E book \in ExchangeBooks : LiveUpdatePositions(FALSE, book)
    \/ \E price \in Prices : LiveFetch(FALSE, price)
    \/ \E capital \in InitialCapitals : LiveBalance(FALSE, capital)
    \/ \E sig \in HoldSignals : LiveSignal(FALSE, sig)
    \/ LiveValidate
    \/ \E capital \in InitialCapitals : LiveExecute(FALSE, capital, FALSE)
    \/ LiveUpdateState(FALSE)
    \/ \E price \in Prices : DemoFetch(FALSE, price)
    \/ DemoCheckExit
    \/ \E sig \in HoldSignals : DemoSignal(FALSE, sig)
    \/ DemoProcessSignal
    \/ DemoEquity

SpecHold == InitHold /\ [][NextHold]_vars

--------------------------------------------------------------------------
(* A LiveTrader placing orders on the exchange while the wall clock moves on: the hour
   and the date can change between any two steps of a tick *)

\* live mode (dry_run = False) with auto-trading enabled
InitClock ==
    /\ InitExec
    /\ engine = "live"
    /\ ~cfg.dry_run
    /\ cfg.enable_auto_trading

NextClock ==
    \/ Start(TRUE)
    \/ LoopTest
    \/ Sleep
    \/ \E book \in ExchangeBooks : LiveUpdatePositions(FALSE, book)
    \/ \E price \in Prices : LiveFetch(FALSE, price)
    \/ \E b \in LiveBalances : LiveBalance(FALSE, b)
    \/ \E sig \in KillSignals : LiveSignal(FALSE, sig)
    \/ LiveValidate
    \/ \E b \in LiveBalances, order_raises \in BOOLEAN : LiveExecute(FALSE, b, order_raises)
    \/ LiveUpdateState(FALSE)
    \/ ManualReset
    \/ ClockAdvance /\ UNCHANGED <<execVars, bt, opt>>

SpecClock == InitClock /\ [][NextClock]_vars

--------------------------------------------------------------------------
(* A LiveTrader in live mode whose exchange and strategy calls all return: the
   signals of every type against a flat, a long and a short account *)

InitAgree == InitThreads /\ engine = "live"

NextAgree ==
    \/ Start(TRUE)
    \/ LoopTest
    \/ Sleep
    \/ \E book \in ExchangeBooks : LiveUpdatePositions(FALSE, book)
    \/ \E price \in Prices : LiveFetch(FALSE, price)
    \/ \E capital \in InitialCapitals : LiveBalance(FALSE, capital)
    \/ \E sig \in KillSignals : LiveSignal(FALSE, sig)
    \/ LiveValidate
    \/ \E capital \in InitialCapitals : LiveExecute(FALSE, capital, FALSE)
    \/ LiveUpdateState(FALSE)

SpecAgree == InitAgree /\ [][NextAgree]_vars

--------------------------------------------------------------------------
(* The life cycle of one trader: an operator calling start(), stop(), pause() and
   resume() in any order, one call after the other, beside the trader's threads *)

\* auto-trading is disabled (TraderConfig.enable_auto_trading = False): the main loop
\* refreshes positions, history and balance and asks the strategy for nothing
InitLifecycle ==
    /\ InitExec
    /\ ~cfg.enable_auto_trading
    /\ ~cfg.dry_run
    /\ limits.min_balance = 0

\* one step of the main-loop thread
LifecycleMainLoopStep ==
    \/ LoopTest
    \/ Sleep
    \/ \E book \in ExchangeBooks : LiveUpdatePositions(FALSE, book)
    \/ \E raises \in BOOLEAN, price \in Prices : LiveFetch(raises, price)
    \/ \E capital \in InitialCapitals : LiveBalance(FALSE, capital)
    \/ \E sig \in ThreadSignals : LiveSignal(FALSE, sig)
    \/ LiveUpdateState(FALSE)
    \/ \E raises \in BOOLEAN, price \in Prices : DemoFetch(raises, price)
    \/ DemoCheckExit
    \/ \E sig \in ThreadSignals : DemoSignal(FALSE, sig)
    \/ DemoEquity

NextLifecycle ==
    \/ th.stop_pc \in {"none", "returned"} /\ ~AliveThread(th.hb_pc) /\ Start(TRUE)
    \/ \E health_ok \in BOOLEAN : th.stop_pc \in {"none", "returned"} /\ Restart(health_ok)
    \/ \E health_ok \in BOOLEAN :
          th.stop_pc \in {"none", "returned"} /\ StartReturnsEarly(health_ok)
    \/ Pause
    \/ Resume
    \/ LiveStop
    \/ DemoStop
    \/ StopJoinMain
    \/ StopJoinHeartbeat
    \/ LifecycleMainLoopStep
    \/ HeartbeatStep
    \/ \E i \in 1..MaxOldThreads, raises \in BOOLEAN : OldHeartbeatStep(i, raises)

SpecLifecycle == InitLifecycle /\ [][NextLifecycle]_vars

--------------------------------------------------------------------------
(* Optimizer.optimize on every grid, every objective and every outcome of the runs *)

InitOpt ==
    /\ limits \in { l \in LimitConfigs : l.min_balance = 0 }
    /\ now = [day |-> 0, hour |-> 0]
    /\ rm = NewRiskManager(BtInitialCapital, 0)
    /\ lastCall = NoCall
    /\ engine = "none"
    /\ cfg = [dry_run |-> FALSE, enable_auto_trading |-> TRUE]
    /\ tr = NewTrader
    /\ demo = NewDemoAccount(0)
    /\ th = NewThreads
    /\ bt = NoBacktest
    /\ \E parameter_grid \in ParameterGrids, objective \in Objectives :
          opt = [NoOptimization EXCEPT !.parameter_grid = parameter_grid,
                                       !.objective = objective]

NextOpt ==
    \/ OptOptimize
    \/ \E raises \in BOOLEAN, metrics \in ResultMetrics : OptCombination(raises, metrics)
    \/ OptFinish

SpecOpt == InitOpt /\ [][NextOpt]_vars

--------------------------------------------------------------------------
(* Claims about the RiskManager *)

IsValidate(c) == c.op = "validate_signal"

\* C1. Kill-switch monotonicity: from a state where is_killed holds, every step other
\* than reset_kill_switch() (update_balance with any balance, record_order,
\* record_trade, a day rollover, validate_signal) leaves is_killed set, and a
\* validate_signal of a BUY or SELL signal made there returns (False, reason).
C1_KillSwitchMonotone ==
    [][ (rm.is_killed /\ lastCall'.op # "reset_kill_switch")
          => /\ rm'.is_killed
             /\ (IsValidate(lastCall') /\ lastCall'.signal_type \in {"buy", "sell"})
                   => (~lastCall'.ok /\ lastCall'.reason # None) ]_vars

\* C1 witness: killed for the daily loss, the balance is back at the day's peak, and a
\* BUY/SELL validation has just been rejected.
C1_Witness ==
    /\ rm.is_killed
    /\ rm.kill_reason = DailyLossReason
    /\ rm.current_balance >= rm.daily_stats.peak_balance
    /\ rm.current_balance >= rm.daily_stats.starting_balance
    /\ IsValidate(lastCall)
    /\ lastCall.signal_type \in {"buy", "sell"}
    /\ ~lastCall.ok

\* C2. update_balance(b) sets is_killed whenever the day's loss fraction is >=
\* max_daily_loss, or the drawdown from the day's peak is >= max_drawdown, or
\* b < min_balance; if the manager was not killed before, kill_reason names the first
\* breached check in that order; an existing kill_reason is never overwritten.
C2_UpdateBalanceKills ==
    [][ lastCall'.op = "update_balance" =>
          LET b == lastCall'.balance
              ds == rm'.daily_stats
              lossB == /\ ds.starting_balance > 0
                       /\ (ds.starting_balance - b) * 100
                             >= limits.max_daily_loss * ds.starting_balance
              ddB == /\ ds.peak_balance > 0
                     /\ (ds.peak_balance - b) * 100 >= limits.max_drawdown * ds.peak_balance
              ddDayB == FracGEPct(ds.max_drawdown, limits.max_drawdown)
              floorB == b < limits.min_balance
          IN  /\ (lossB \/ ddB \/ floorB) => rm'.is_killed
              /\ ~rm.is_killed =>
                   /\ lossB => rm'.kill_reason = DailyLossReason
                   /\ (~lossB /\ ddDayB) => rm'.kill_reason = DrawdownReason
                   /\ (~lossB /\ ~ddDayB /\ floorB) => rm'.kill_reason = MinBalanceReason
              /\ rm.is_killed => rm'.kill_reason = rm.kill_reason ]_vars

\* C5. validate_signal returns the reason of the first failing check in the order kill
\* switch, position size, total exposure (BUY/SELL only), order rate, accepts when none
\* fails, and leaves the manager's state unchanged.
C5_ValidateOrderAndFrame ==
    [][ IsValidate(lastCall') =>
          LET c == lastCall'
              rateOk == /\ rm.daily_stats.orders_count < limits.max_orders_per_day
                        /\ rm.daily_stats.orders_by_hour[now.hour] < limits.max_orders_per_hour
              expected ==
                  IF rm.is_killed THEN <<FALSE, KilledReason>>
                  ELSE IF ~c.size_ok THEN <<FALSE, SizeReason>>
                  ELSE IF c.signal_type \in {"buy", "sell"} /\ ~c.exposure_ok
                       THEN <<FALSE, ExposureReason>>
                  ELSE IF ~rateOk THEN <<FALSE, RateReason>>
                  ELSE <<TRUE, None>>
          IN  /\ <<c.ok, c.reason>> = expected
              /\ rm' = rm ]_vars

\* C5 witness: a rejected validation for the position size on a manager whose order
\* cap is also reached (the earlier check's reason is the one returned).
C5_Witness ==
    /\ IsValidate(lastCall)
    /\ ~lastCall.ok
    /\ lastCall.reason = SizeReason
    /\ ~lastCall.exposure_ok
    /\ rm.daily_stats.orders_by_hour[now.hour] >= limits.max_orders_per_hour

CapReached ==
    \/ rm.daily_stats.orders_by_hour[now.hour] >= limits.max_orders_per_hour
    \/ rm.daily_stats.orders_count >= limits.max_orders_per_day

--------------------------------------------------------------------------
(* Claims about the execution engines *)

Logged(event) == \E i \in DOMAIN tr.tickLog : tr.tickLog[i] = event

\* the place of a step in the tick: 0 for the calls the claim does not order
TickRank(event) ==
    CASE event = "update_balance" -> 1
      [] event = "generate_signal" -> 2
      [] event = "validate_signal" -> 3
      [] event = "place_order" -> 4
      [] OTHER -> 0

\* C3: while the kill switch is tripped and a position is open, a CLOSE signal
\* (LiveTrader) or a stop-loss / take-profit condition (DemoTrader) still closes the
\* position: once the LiveTrader has processed a CLOSE signal that the risk manager
\* answered with "Trading killed", _execute_close has run; once the DemoTrader has
\* checked its exit conditions, no position whose stop or target is hit remains.
C3_ExitsPermittedWhenKilled ==
    /\ ( /\ engine = "live"
         /\ tr.pc = "update_state"
         /\ tr.signal.signal_type = "close"
         /\ tr.positions # {}
         /\ Logged("validate_signal")
         /\ tr.valid[2] = KilledReason )
       => Logged("execute_close")
    /\ ( /\ engine = "demo"
         /\ tr.pc = "signal"
         /\ rm.is_killed )
       => \A q \in tr.positions : DemoExitReason(q, tr.price) = None

\* C4: in a LiveTrader tick update_balance, generate_signal, validate_signal and
\* place_order happen at most once each and in this order, each after the one before
\* it; an order is placed only after validate_signal accepted the tick's signal; and a
\* validation made while the risk manager is killed never leads to _execute_*.
C4_TickSequential ==
    /\ [] ( engine = "live" =>
              /\ \A i, j \in DOMAIN tr.tickLog :
                    (i < j /\ TickRank(tr.tickLog[i]) > 0 /\ TickRank(tr.tickLog[j]) > 0)
                       => TickRank(tr.tickLog[i]) < TickRank(tr.tickLog[j])
              /\ \A j \in DOMAIN tr.tickLog :
                    TickRank(tr.tickLog[j]) > 1
                       => \E i \in 1..(j - 1) :
                             TickRank(tr.tickLog[i]) = TickRank(tr.tickLog[j]) - 1
              /\ Logged("place_order") => tr.valid = <<TRUE, None>>
              /\ tr.pc = "execute" => tr.valid = <<TRUE, None>> )
    /\ [][ (engine = "live" /\ tr.pc = "validate" /\ tr'.pc # "validate")
              => /\ tr'.pc = "execute"
                    => ValidateSignal(rm, tr.signal, tr.positions, now.hour, limits)[1]
                 /\ rm.is_killed => (tr'.pc = "update_state" /\ ~tr'.valid[1]) ]_vars

C4_Witness ==
    /\ engine = "live"
    /\ Logged("place_order")
    /\ tr.signal.signal_type = "buy"

\* C10: in both engines the main loop has exited only if stop() was called; an
\* iteration that raised is followed by the sleep and the next loop test.
C10_LoopExitsOnlyOnStop ==
    /\ [] (tr.pc = "exited" => tr.stop_called)
    /\ [][ (Logged("exception")' /\ ~Logged("exception")) => tr'.pc = "sleep" ]_vars

\* the loop iterates again after an iteration in which _process_signal raised
C10_Witness ==
    /\ engine = "demo"
    /\ tr.prev_raised
    /\ tr.pc = "check_exit"
    /\ ~tr.stop_called

--------------------------------------------------------------------------
(* Claims about the BacktestEngine *)

\* the stop-loss / take-profit test as the claim states it: long, low <= stop or
\* high >= target; short, mirrored
StopOrTargetHit(position, bar) ==
    LET low == bar.low * 100 * BtSlippageDen
        high == bar.high * 100 * BtSlippageDen
    IN  \/ /\ position.signal_type = "buy"
           /\ \/ position.stop_loss # 0 /\ low <= position.stop_loss
              \/ position.take_profit # 0 /\ high >= position.take_profit
        \/ /\ position.signal_type = "sell"
           /\ \/ position.stop_loss # 0 /\ high >= position.stop_loss
              \/ position.take_profit # 0 /\ low <= position.take_profit

\* C7: every Position of a returned BacktestResult has exit_time and exit_price set,
\* the positions of the result are pairwise distinct and are all the positions the run
\* opened (each exactly once), and a position closed by the final forced close carries
\* the last bar's timestamp.
C7_PositionsClosedOnce ==
    bt.result.returned =>
        LET trades == bt.result.trades
            last_bar == bt.market_data[Len(bt.market_data)]
        IN  /\ \A k \in DOMAIN trades : trades[k].exit_time # 0 /\ trades[k].exit_price # 0
            /\ \A k, m \in DOMAIN trades :
                  k # m => trades[k].entry_time # trades[m].entry_time
            /\ Len(trades) = bt.opened
            /\ \A f \in DOMAIN bt.fills :
                  bt.fills[f].reason = "final"
                     => /\ f = Len(bt.fills)
                        /\ trades[Len(trades)].exit_time = last_bar.timestamp

\* a run that returned two trades, the second closed by the final forced close
C7_Witness ==
    /\ bt.result.returned
    /\ Len(bt.result.trades) = 2
    /\ bt.fills[Len(bt.fills)].reason = "final"

\* C8: on every bar the exit test and the close it asks for come before
\* generate_signal: a position whose stop or target the bar hits is closed by the
\* head of the bar (moved to the trade list with the bar's timestamp, the strategy not
\* yet called for the bar), generate_signal is called once per bar in bar order, and it
\* is never handed a position that the bar stops out; an entry on a bar is made only
\* after the bar's generate_signal call.
C8_ExitBeforeEntry ==
    /\ [] ( /\ \A k \in DOMAIN bt.calls : bt.calls[k].bar = k
            /\ \A f \in DOMAIN bt.fills :
                  LET fill == bt.fills[f]
                      day == CHOOSE k \in DOMAIN bt.market_data :
                                bt.market_data[k].timestamp = fill.bar
                  IN  /\ fill.reason = "entry"
                         => /\ day \in DOMAIN bt.calls
                            /\ bt.calls[day].current_position = NoPosition
                      /\ fill.reason = "exit_check" /\ day \in DOMAIN bt.calls
                         => /\ bt.calls[day].current_position = NoPosition
                            /\ bt.calls[day].trades >= 1
                            /\ bt.positions[bt.calls[day].trades].exit_time = fill.bar )
    /\ [][ (bt.pc = "exit_check" /\ bt'.pc # "exit_check")
              => LET bar == bt.market_data[bt.i]
                     position == bt.current_position
                 IN  /\ Len(bt'.calls) = Len(bt.calls)
                     /\ Len(bt.calls) = bt.i - 1
                     /\ (position # NoPosition /\ StopOrTargetHit(position, bar))
                           => /\ bt'.current_position = NoPosition
                              /\ Len(bt'.positions) = Len(bt.positions) + 1
                              /\ bt'.positions[Len(bt'.positions)].entry_time
                                    = position.entry_time
                              /\ bt'.positions[Len(bt'.positions)].exit_time
                                    = bar.timestamp ]_vars
    /\ [][ Len(bt'.calls) > Len(bt.calls)
              => LET call == bt'.calls[Len(bt'.calls)]
                     bar == bt.market_data[bt.i]
                 IN  /\ call.bar = bt.i
                     /\ call.current_position = bt.current_position
                     /\ ~(call.current_position # NoPosition
                          /\ StopOrTargetHit(call.current_position, bar)) ]_vars

\* a bar stopped the long position out and the BUY of the same bar opened a new one
C8_Witness ==
    \E f \in DOMAIN bt.fills :
        /\ f + 1 \in DOMAIN bt.fills
        /\ bt.fills[f].reason = "exit_check"
        /\ bt.fills[f + 1].reason = "entry"
        /\ bt.fills[f + 1].bar = bt.fills[f].bar
        /\ bt.fills[f + 1].signal_type = "buy"

\* C9: every fill that is a buy (the entry of a long, the exit of a short) is at
\* price * (1 + slippage) and every fill that is a sell (the entry of a short, the exit
\* of a long) at price * (1 - slippage), whatever closes the position.
C9_SlippageDirection ==
    \A f \in DOMAIN bt.fills :
        LET fill == bt.fills[f]
            is_buy == fill.is_entry = (fill.signal_type = "buy")
        IN  fill.fill = IF is_buy THEN fill.price * (BtSlippageDen + 1)
                        ELSE fill.price * (BtSlippageDen - 1)

--------------------------------------------------------------------------
(* Claims about the threads of a trader *)

\* C11: when stop() has returned on a running trader (and start() has not been called
\* since), the main loop and the heartbeat loop have both ended, so neither runs
\* another iteration or writes any state.
C11_StopReturnsAfterLoopsEnd ==
    th.stop_pc = "returned" => (tr.pc = "exited" /\ th.hb_pc = "exited")

\* C12: once stop() has set the stop flag, the main loop and the heartbeat loop both
\* exit, unless start() is called again; every call returns and both threads are
\* scheduled.
C12_LoopsExitAfterStop ==
    tr.stop_called ~> ((tr.pc = "exited" /\ th.hb_pc = "exited") \/ ~tr.stop_called)

\* stop() was called while the main loop was in the middle of an iteration and the
\* heartbeat loop in its body, and both have exited since
C12_Witness ==
    /\ tr.stop_called
    /\ tr.pc = "exited"
    /\ th.hb_pc = "exited"
    /\ th.last_heartbeat = "heartbeat_loop"
    /\ tr.tickLog # << >>

\* C13: a stop() call on a trader that is not running (never started, or stopped)
\* changes nothing of the trader, its account or its risk manager and starts no join;
\* after a stop() the trader is not running until start(), so a second stop() is
\* such a call.
C13_StopIdempotent ==
    /\ [] (th.last_stop # "none" => ~tr.is_running)
    /\ [][ (th'.last_stop # th.last_stop /\ th'.last_stop # "none" /\ ~tr.is_running)
              => /\ tr' = tr
                 /\ demo' = demo
                 /\ rm' = rm
                 /\ th'.stop_pc = th.stop_pc
                 /\ th'.hb_pc = th.hb_pc ]_vars

\* stop() returned, and a second stop() was then called on the stopped trader
C13_Witness ==
    /\ th.last_stop = "noop"
    /\ th.stop_pc = "returned"
    /\ tr.stop_called

--------------------------------------------------------------------------
(* Claims about the contract of BacktestEngine.run *)

\* C14: run() called with an empty market-data sequence raises ValueError before any
\* other effect: strategy.reset() is not called, generate_signal is never called, no
\* local of the run is set and no result is produced.
C14_EmptyInputRejected ==
    (bt.input = << >> /\ bt.pc # "idle")
       => /\ bt.pc = "raised"
          /\ bt.error = "ValueError"
          /\ ~bt.reset_called
          /\ bt.calls = << >>
          /\ ~bt.result.returned
          /\ bt.market_data = << >>
          /\ bt.positions = << >>
          /\ bt.equity_curve = << >>

\* run() was called with no bars and has raised
C14_Witness ==
    /\ bt.input = << >>
    /\ bt.pc = "raised"
    /\ bt.error = "ValueError"

\* C15: when strategy.generate_signal raises on a bar, the bar is an implicit HOLD:
\* the open position and the capital are as before the call, and the run goes on to
\* the next bar (or, after the last bar, to the result).
C15_StrategyErrorIsHold ==
    [][ (bt.pc = "signal" /\ bt'.error = "Exception")
           => /\ bt'.pc \in {"exit_check", "final"}
              /\ bt'.current_position = bt.current_position
              /\ bt'.capital = bt.capital ]_vars

\* C16 as stated: no trades, profit_factor = 0; at least one win and no losing trade,
\* +infinity; in every other case profit_factor = sum(wins) / abs(sum(losses)), a
\* quotient that exists.
C16_ProfitFactorAsStated ==
    bt.pc = "done"
       => LET r == bt.result
              W == WinningTrades(r.trades)
              L == LosingTrades(r.trades)
              wins == SumPnl(r.trades, W)
              losses == FracAbs(SumPnl(r.trades, L))
          IN  IF r.total_trades = 0 THEN r.profit_factor = <<0, 1>>
              ELSE IF W # {} /\ L = {} THEN r.profit_factor = Infinity
              ELSE /\ losses[1] # 0
                   /\ r.profit_factor # Infinity
                   /\ FracMul(r.profit_factor, losses) = wins

\* C16: no trades, profit_factor = 0; at least one win and no losing trade,
\* +infinity; at least one losing trade, profit_factor = sum(wins) / abs(sum(losses));
\* trades of which none wins and none loses (every PnL is 0), profit_factor = 0.
C16_ProfitFactor ==
    bt.pc = "done"
       => LET r == bt.result
              W == WinningTrades(r.trades)
              L == LosingTrades(r.trades)
              wins == SumPnl(r.trades, W)
              losses == FracAbs(SumPnl(r.trades, L))
          IN  IF r.total_trades = 0 THEN r.profit_factor = <<0, 1>>
              ELSE IF W # {} /\ L = {} THEN r.profit_factor = Infinity
              ELSE IF L # {}
              THEN /\ losses[1] # 0
                   /\ r.profit_factor # Infinity
                   /\ FracMul(r.profit_factor, losses) = wins
              ELSE r.profit_factor = <<0, 1>>

\* a run returned trades of which none is a win and none a loss
C16_Witness ==
    /\ bt.pc = "done"
    /\ bt.result.total_trades > 0
    /\ WinningTrades(bt.result.trades) = {}
    /\ LosingTrades(bt.result.trades) = {}
    /\ bt.result.profit_factor = <<0, 1>>

\* C17: a long position opened with stop_loss_pct is not held past the first later
\* bar whose low is at or below its stop (entry_price * (1 - s)); closed on that bar,
\* its exit_time is the bar's timestamp and the trade is counted as a losing trade.
C17_StopLossReplay ==
    bt.pc = "done"
       => \A k \in DOMAIN bt.result.trades :
             LET p == bt.result.trades[k]
                 hits == { j \in DOMAIN bt.market_data :
                              /\ bt.market_data[j].timestamp > p.entry_time
                              /\ bt.market_data[j].low * 100 * BtSlippageDen <= p.stop_loss }
             IN  (p.signal_type = "buy" /\ p.stop_loss # 0 /\ hits # {})
                    => LET first == CHOOSE j \in hits : \A i \in hits : j <= i
                       IN  /\ p.exit_time <= bt.market_data[first].timestamp
                           /\ p.exit_time = bt.market_data[first].timestamp
                                 => k \in LosingTrades(bt.result.trades)

--------------------------------------------------------------------------
(* Claims about the DemoTrader's entries *)

\* C19: in the DemoTrader every non-HOLD signal handed to _process_signal is passed
\* to RiskManager.validate_signal, and _process_signal ends without an exception.
C19_DemoEntryValidated ==
    (engine = "demo" /\ Logged("process_signal"))
       => /\ Logged("validate_signal")
          /\ ~Logged("exception")

--------------------------------------------------------------------------
(* Claims about the rolling history *)

\* C20: market_data_history never holds more than max_history_length ticks; a tick
\* that was fetched is appended as the newest entry, the entries before it keep their
\* order, and past the cap the oldest entry is the one dropped; no other step of the
\* trader changes the history.
C20_BoundedRollingHistory ==
    /\ [] (Len(tr.market_data_history) <= MaxHistoryLength)
    /\ [][ IF tr.pc = "fetch" /\ tr'.pc \in {"balance", "check_exit"}
           THEN LET arrived == Append(tr.market_data_history, tr'.price)
                IN  tr'.market_data_history =
                       IF Len(arrived) <= MaxHistoryLength THEN arrived ELSE Tail(arrived)
           ELSE tr'.market_data_history = tr.market_data_history ]_vars

\* a full history of ticks of different prices, after a tick was evicted
C20_Witness ==
    /\ tr.evicted
    /\ Len(tr.market_data_history) = MaxHistoryLength
    /\ tr.market_data_history[1] # tr.market_data_history[MaxHistoryLength]
    /\ tr.market_data_history[MaxHistoryLength] = tr.price

--------------------------------------------------------------------------
(* Claims about the Optimizer *)

--------------------------------------------------------------------------
(* Claims about the exposure gate, the rollover and the kill-switch reset *)

\* the notional of the position a signal proposes, as check_position_size and
\* _execute_buy size it: balance * max_position_size * strength, in 1/10000
ProposedNotional(strength, balance, lim) == balance * lim.max_position_size * strength

\* open notional together with the proposed position above max_total_exposure * balance
WouldExceedExposure(c, balance, lim) ==
    c.exposure * 10000 + ProposedNotional(c.strength, balance, lim)
       > lim.max_total_exposure * 100 * balance

\* C21: a BUY or SELL validated while not killed (and within the position-size limit)
\* is rejected with the exposure reason whenever the open notional together with the
\* proposed position would exceed max_total_exposure * current_balance; an accepted
\* entry never brings the total above the limit; a CLOSE is never rejected for exposure.
C21_ExposureGate ==
    IsValidate(lastCall)
       => LET c == lastCall
              entry == c.signal_type \in {"buy", "sell"}
          IN  /\ ( /\ entry
                   /\ ~rm.is_killed
                   /\ c.size_ok
                   /\ WouldExceedExposure(c, rm.current_balance, limits) )
                 => (~c.ok /\ c.reason = ExposureReason)
              /\ (entry /\ c.ok) => ~WouldExceedExposure(c, rm.current_balance, limits)
              /\ c.signal_type = "close" => c.reason # ExposureReason

\* the daily statistics start afresh: no order, no trade, no realised PnL
CountersReset(ds) ==
    /\ ds.orders_count = 0
    /\ \A h \in DOMAIN ds.orders_by_hour : ds.orders_by_hour[h] = 0
    /\ ds.trades_count = 0
    /\ ds.realized_pnl = 0

\* what update_balance leaves of the kill switch: a tripped switch and its reason
\* stay; risk_limits is not written
KillKeptAcrossUpdate ==
    /\ rm.is_killed => (rm'.is_killed /\ rm'.kill_reason = rm.kill_reason)
    /\ limits' = limits

\* C22 as stated: after the first update_balance(b) on a later date the daily stats
\* are new, with starting_balance and peak_balance equal to the balance held before
\* the call and the counters and max_drawdown zero.
C22_RolloverAsStated ==
    [][ (lastCall'.op = "update_balance" /\ now.day > rm.daily_stats.date)
           => LET ds == rm'.daily_stats
              IN  /\ ds.date = now.day
                  /\ ds.starting_balance = rm.current_balance
                  /\ ds.peak_balance = rm.current_balance
                  /\ CountersReset(ds)
                  /\ ds.max_drawdown = <<0, 1>>
                  /\ KillKeptAcrossUpdate ]_vars

\* C22: the first update_balance(b) on a later date replaces the daily stats:
\* starting_balance is the balance held before the call, the counters are zero, and
\* peak_balance and max_drawdown are those of b against the new stats alone
\* (peak_balance the larger of the old balance and b, max_drawdown b's drawdown from
\* that peak); an update_balance on the date of the stats replaces nothing; no step
\* writes risk_limits, and a tripped switch keeps its reason through the rollover.
C22_Rollover ==
    /\ [][ (lastCall'.op = "update_balance" /\ now.day > rm.daily_stats.date)
              => LET ds == rm'.daily_stats
                     b == lastCall'.balance
                     peak == IF b > rm.current_balance THEN b ELSE rm.current_balance
                 IN  /\ ds.date = now.day
                     /\ ds.starting_balance = rm.current_balance
                     /\ ds.peak_balance = peak
                     /\ CountersReset(ds)
                     /\ ds.max_drawdown =
                           IF peak = 0 THEN <<0, 1>> ELSE Frac(peak - b, peak)
                     /\ KillKeptAcrossUpdate ]_vars
    /\ [][ (lastCall'.op = "update_balance" /\ now.day = rm.daily_stats.date)
              => LET ds == rm'.daily_stats
                 IN  /\ ds.date = rm.daily_stats.date
                     /\ ds.starting_balance = rm.daily_stats.starting_balance
                     /\ ds.orders_count = rm.daily_stats.orders_count
                     /\ ds.orders_by_hour = rm.daily_stats.orders_by_hour
                     /\ ds.trades_count = rm.daily_stats.trades_count
                     /\ ds.realized_pnl = rm.daily_stats.realized_pnl
                     /\ KillKeptAcrossUpdate ]_vars
    /\ [][ limits' = limits ]_vars

\* a manager killed by hand the day before, with an order and a trade recorded then,
\* after the update_balance that rolled the day over
C22_Witness ==
    /\ lastCall.op = "update_balance"
    /\ now.day = 1
    /\ rm.daily_stats.date = 1
    /\ rm.is_killed
    /\ rm.kill_reason = "manual"
    /\ rm.daily_stats.starting_balance = 100
    /\ rm.daily_stats.peak_balance = 100
    /\ rm.current_balance = 95

--------------------------------------------------------------------------
(* Claims about HOLD signals *)

\* C23: a HOLD signal of any strength executes nothing. In BacktestEngine.run the bar
\* on which the strategy answers HOLD leaves the open position, the trade list, the
\* capital and both curves as they were. In LiveTrader and DemoTrader the iteration in
\* which generate_signal answers HOLD never enters _process_signal: no
\* validate_signal, no _execute_*, no place_order, and the step that takes the signal
\* changes neither the risk manager, the positions, the open orders nor the demo
\* account.
C23_HoldNeverExecutes ==
    /\ [][ ( /\ bt.pc = "signal"
             /\ bt'.pc \in {"exit_check", "final"}
             /\ bt'.signal.signal_type = "hold" )
              => /\ bt'.current_position = bt.current_position
                 /\ bt'.positions = bt.positions
                 /\ bt'.capital = bt.capital
                 /\ bt'.equity_curve = bt.equity_curve
                 /\ bt'.drawdown_curve = bt.drawdown_curve
                 /\ bt'.peak_equity = bt.peak_equity
                 /\ bt'.fills = bt.fills
                 /\ bt'.opened = bt.opened ]_vars
    /\ [] ( tr.signal.signal_type = "hold"
               => /\ tr.pc \notin {"validate", "execute", "process"}
                  /\ ~Logged("process_signal")
                  /\ ~Logged("validate_signal")
                  /\ ~Logged("execute_hold")
                  /\ ~Logged("place_order") )
    /\ [][ (tr.pc = "signal" /\ tr'.signal.signal_type = "hold")
              => /\ rm' = rm
                 /\ demo' = demo
                 /\ tr'.positions = tr.positions
                 /\ tr'.open_orders = tr.open_orders ]_vars

\* a LiveTrader holding a position has taken a HOLD of more than full strength and is
\* past the point where a signal is processed
C23_Witness ==
    /\ engine = "live"
    /\ tr.signal = [signal_type |-> "hold", strength |-> 150]
    /\ tr.positions # {}
    /\ tr.pc = "sleep"
    /\ Logged("generate_signal")

--------------------------------------------------------------------------
(* Claims about the operator's calls and the trader's threads *)

\* a step that is not a step of the main-loop thread: the main loop is where it was, or
\* it had not been started or had ended (start(), stop(), pause(), resume(), the joins
\* and the heartbeat threads)
OffLoopStep == tr'.pc = tr.pc \/ ~AliveThread(tr.pc)

IteratingHeartbeats ==
    (IF th.hb_pc = "body" THEN 1 ELSE 0)
    + Cardinality({ i \in DOMAIN th.old_hb : th.old_hb[i] = "body" })

\* the main-loop threads that are inside an iteration
IteratingMainLoops == IF AliveThread(tr.pc) /\ tr.pc # "loop_test" THEN 1 ELSE 0

\* C26: under any sequence of start() and stop() calls at most one main-loop thread and
\* at most one heartbeat thread of the trader are executing iterations; a start() on a
\* running trader, or one whose health check fails, changes nothing of the trader and
\* starts no thread, and after a failed health check the trader is not running.
C26_OneThreadPerLoop ==
    /\ [] (IteratingMainLoops <= 1 /\ IteratingHeartbeats <= 1)
    /\ [] (th.last_start = "unhealthy" => ~tr.is_running)
    /\ [][ (th'.last_start # th.last_start /\ th'.last_start \in {"already_running", "unhealthy"})
              => /\ tr' = tr
                 /\ th'.hb_pc = th.hb_pc
                 /\ th'.old_hb = th.old_hb ]_vars

\* C27: an iteration of the LiveTrader's main loop that reaches its signal step while
\* the trader is paused (as every iteration does that began after pause() returned and
\* before resume()) calls neither strategy.generate_signal nor exchange.place_order;
\* it has refreshed the positions, the market-data history and the risk manager's
\* balance before, as every iteration has, so the kill switch can trip while paused;
\* once resume() has cleared the pause the signal step asks the strategy again (auto
\* trading enabled).
C27_PauseSkipsSignal ==
    /\ [][ (engine = "live" /\ tr.pc = "signal" /\ tr'.pc # "signal") =>
              IF tr.is_paused
              THEN tr'.pc = "update_state" /\ ~Logged("generate_signal")'
              ELSE cfg.enable_auto_trading => Logged("generate_signal")' ]_vars
    /\ [] ((engine = "live" /\ (Logged("validate_signal") \/ Logged("place_order")))
              => Logged("generate_signal"))
    /\ [] ((engine = "live" /\ tr.pc \in {"signal", "validate", "execute", "update_state"})
              => /\ Logged("get_position")
                 /\ Logged("get_market_data")
                 /\ Logged("update_balance"))

\* a paused iteration with auto-trading enabled has run to its sleep without a signal,
\* and its balance update tripped the kill switch
C27_Witness ==
    /\ engine = "live"
    /\ cfg.enable_auto_trading
    /\ tr.is_paused
    /\ tr.pc = "sleep"
    /\ ~Logged("exception")
    /\ ~Logged("generate_signal")
    /\ Logged("update_balance")
    /\ tr.market_data_history # << >>
    /\ rm.is_killed
    /\ rm.current_balance = 95

--------------------------------------------------------------------------
(* Claims about the order counters *)

\* the execution step has submitted an order to the exchange, or simulated one (dry run)
OrderExecuted(t) ==
    \E i \in DOMAIN t.tickLog : t.tickLog[i] \in {"place_order", "dry_run_order"}

\* C28: every order the engine submits or simulates after an accepted signal increases
\* daily_stats.orders_count by exactly one, in live and in dry-run mode, and the count
\* increases in no other step: not for a rejected or skipped signal, and not when
\* place_order raised.
C28_OrderAccounting ==
    /\ [][ (tr.pc = "execute" /\ tr'.pc # "execute" /\ OrderExecuted(tr'))
              => rm'.daily_stats.orders_count = rm.daily_stats.orders_count + 1 ]_vars
    /\ [][ rm'.daily_stats.orders_count > rm.daily_stats.orders_count
              => /\ tr.pc = "execute"
                 /\ tr.valid[1]
                 /\ OrderExecuted(tr')
                 /\ rm'.daily_stats.orders_count = rm.daily_stats.orders_count + 1 ]_vars

\* C29: in a LiveTrader in live mode with caps of at least one, whatever the ticks, hour
\* changes and day rollovers, daily_stats.orders_count never exceeds max_orders_per_day
\* and no orders_by_hour bucket exceeds max_orders_per_hour.
C29_OrdersWithinCaps ==
    ( /\ engine = "live"
      /\ ~cfg.dry_run
      /\ limits.max_orders_per_day >= 1
      /\ limits.max_orders_per_hour >= 1 )
    => /\ rm.daily_stats.orders_count <= limits.max_orders_per_day
       /\ \A h \in DOMAIN rm.daily_stats.orders_by_hour :
             rm.daily_stats.orders_by_hour[h] <= limits.max_orders_per_hour

--------------------------------------------------------------------------
(* Claims about the manual reset of the kill switch *)

\* the balance b breaches a limit of update_balance by itself: the day's loss, the
\* drawdown of b from the day's peak, or the floor
BreachesNow(ds, b, lim) ==
    \/ /\ ds.starting_balance > 0
       /\ (ds.starting_balance - b) * 100 >= lim.max_daily_loss * ds.starting_balance
    \/ /\ ds.peak_balance > 0
       /\ (ds.peak_balance - b) * 100 >= lim.max_drawdown * ds.peak_balance
    \/ b < lim.min_balance

\* C30: reset_kill_switch() leaves is_killed false and kill_reason None, and an
\* update_balance(b) on a manager that is not killed sets is_killed only if b itself
\* breaches a limit at that moment (daily loss, drawdown from the day's peak, floor);
\* a balance back at the day's peak does not trip the switch again.
C30_ResetThenRetrip ==
    /\ [][ lastCall'.op = "reset_kill_switch"
              => (~rm'.is_killed /\ rm'.kill_reason = None) ]_vars
    /\ [][ (lastCall'.op = "update_balance" /\ ~rm.is_killed /\ rm'.is_killed)
              => BreachesNow(rm'.daily_stats, lastCall'.balance, limits) ]_vars

--------------------------------------------------------------------------
(* Claims about the balance update *)

\* C31: update_balance(b) returns without raising for every balance b >= 0 in every
\* reachable state of the manager, a manager created with initial_balance 0 and a day
\* whose starting and peak balance are 0 included.
C31_UpdateBalanceNeverRaises ==
    [][ (lastCall'.op = "update_balance" /\ lastCall'.balance >= 0)
          => ~lastCall'.raised ]_vars

--------------------------------------------------------------------------
(* Claims about the agreement of the backtest and the live engine *)

\* flat, long or short: the side of the position a LiveTrader tracks
SideOf(book) ==
    IF book = {} THEN "flat"
    ELSE IF (CHOOSE p \in book : TRUE).signal_type = "buy" THEN "long" ELSE "short"

\* the side BacktestEngine.run holds after a signal (no stop or target hit on the bar)
BtSideAfter(side, signal_type) ==
    CASE BtSignalAction(signal_type, side # "flat") = "open"
            -> IF signal_type = "buy" THEN "long" ELSE "short"
      [] BtSignalAction(signal_type, side # "flat") = "close" -> "flat"
      [] OTHER -> side

\* the side of the account once the order of _execute_buy / _execute_sell /
\* _execute_close has filled: BUY of a flat account, SELL of size * strength of the
\* tracked position, or the opposite order of the position's whole size; without an
\* order the side stays
LiveSideAfter(t, placed) ==
    LET side == SideOf(t.positions)
    IN  IF ~placed THEN side
        ELSE CASE t.signal.signal_type = "buy" -> "long"
               [] t.signal.signal_type = "sell" ->
                     IF side = "short" \/ t.signal.strength > 100 THEN "short"
                     ELSE IF t.signal.strength = 100 THEN "flat" ELSE "long"
               [] OTHER -> "flat"

\* C32: for the same signal from the same position state (flat, long, short) the
\* LiveTrader reaches the state BacktestEngine.run reaches: a SELL while flat opens a
\* short, and a BUY or SELL while a position is open changes nothing, in both.
C32_SamePositionStates ==
    [][ (engine = "live" /\ tr.pc = "execute" /\ tr'.pc # "execute")
          => LiveSideAfter(tr, Logged("place_order")')
               = BtSideAfter(SideOf(tr.positions), tr.signal.signal_type) ]_vars

--------------------------------------------------------------------------
(* DemoTrader._check_exit_conditions on a held position, next to the backtest's rule:
   the position is handed to the running trader as _open_position would leave it, and
   the tick the exchange returns is one of the bar shapes *)

\* the stop and the target of a demo position, in price units: unset (0), below the
\* entry price of 10, or above it
DemoLevels == {0, 9, 15}

\* DemoPosition: one unit entered at a price of 10 with the entry slippage
DemoPositions ==
    { [symbol |-> "BTC", side |-> side, size |-> 1,
       entry_price |-> IF side = "long" THEN 10 * (DemoSlippageDen + 1)
                       ELSE 10 * (DemoSlippageDen - 1),
       stop_loss |-> sl, take_profit |-> tp, current_price |-> 10] :
      side \in {"long", "short"}, sl \in DemoLevels, tp \in DemoLevels }

\* a running DemoTrader that holds a position, before a tick; the tick the exchange
\* will return is kept as the one bar of bt.market_data
InitTicks ==
    /\ engine = "demo"
    /\ cfg \in [dry_run : {FALSE}, enable_auto_trading : BOOLEAN]
    /\ limits \in { l \in LimitConfigs : l.min_balance = 0 }
    /\ now = [day |-> 0, hour |-> 0]
    /\ \E capital \in InitialCapitals :
          /\ rm = NewRiskManager(capital, 0)
          /\ demo = NewDemoAccount(capital)
    /\ th = [NewThreads EXCEPT !.hb_pc = "loop_test", !.last_start = "started"]
    /\ \E md \in BarShapes : bt = [NoBacktest EXCEPT !.market_data = <<md>>]
    /\ opt = NoOptimization
    /\ lastCall = NoCall
    /\ \E position \in DemoPositions :
          tr = [NewTrader EXCEPT !.is_running = TRUE, !.pc = "loop_test",
                                 !.positions = {position}]

NextTicks ==
    \/ LoopTest
    \/ Sleep
    \/ DemoFetch(FALSE, bt.market_data[1].price)
    \/ DemoCheckExit
    \/ \E sig \in HoldSignals : DemoSignal(FALSE, sig)
    \/ DemoEquity

SpecTicks == InitTicks /\ [][NextTicks]_vars

--------------------------------------------------------------------------
(* Claims about the exit rule of the two engines *)

\* the demo position as the Position of the backtest: BUY for long, SELL for short, the
\* stop and the target in the units of CheckExitConditions
AsBtPosition(position) ==
    [signal_type |-> IF position.side = "long" THEN "buy" ELSE "sell",
     stop_loss |-> position.stop_loss * 100 * BtSlippageDen,
     take_profit |-> position.take_profit * 100 * BtSlippageDen]

--------------------------------------------------------------------------
(* Claims about the result of a backtest run *)

\* the PnL of a closed trade net of its entry and exit commission
NetPnl(position) ==
    FracSub(FracSub(CalculatePnl(position, position.exit_price),
                    CommissionCost(position.size, position.entry_price)),
            CommissionCost(position.size, position.exit_price))

\* C34: in the result of a run with trades, each trade's reported pnl is net of its
\* entry and exit commission (size * price * rate each), so the sum of pnl over
\* result.trades equals result.total_return (the final equity_curve value minus
\* initial_capital).
C34_PnlNetOfCommission ==
    (bt.result.returned /\ bt.result.total_trades > 0)
       => /\ \A k \in DOMAIN bt.result.trades :
                FracSub(PositionPnl(bt.result.trades[k]), NetPnl(bt.result.trades[k]))[1] = 0
          /\ FracSub(SumPnl(bt.result.trades, DOMAIN bt.result.trades),
                     bt.result.total_return)[1] = 0

\* max(equity_curve[0..k]), for the sample at index k (from 1)
RECURSIVE RunningPeak(_, _)
RunningPeak(equity_curve, k) ==
    IF k = 1 THEN equity_curve[1]
    ELSE LET before == RunningPeak(equity_curve, k - 1)
         IN  IF FracGT(equity_curve[k], before) THEN equity_curve[k] ELSE before

\* 100 * (peak - equity) / peak
PeakToTroughPct(peak, equity) ==
    FracMul(<<100, 1>>, FracMul(FracSub(peak, equity), <<peak[2], peak[1]>>))

\* C35: in every BacktestResult, equity_curve and drawdown_curve have the same length,
\* equity_curve[0] is the initial capital, drawdown_curve[k] is
\* 100 * (max(equity_curve[0..k]) - equity_curve[k]) / max(equity_curve[0..k]) for
\* every k, and max_drawdown_pct is the maximum of drawdown_curve.
C35_DrawdownCurve ==
    bt.result.returned =>
       LET equity_curve == bt.result.equity_curve
           drawdown_curve == bt.result.drawdown_curve
       IN  /\ Len(equity_curve) = Len(drawdown_curve)
           /\ equity_curve[1] = <<BtInitialCapital, 1>>
           /\ \A k \in DOMAIN drawdown_curve :
                 drawdown_curve[k]
                   = PeakToTroughPct(RunningPeak(equity_curve, k), equity_curve[k])
           /\ \E k \in DOMAIN drawdown_curve :
                 bt.result.max_drawdown_pct = drawdown_curve[k]
           /\ \A k \in DOMAIN drawdown_curve :
                 ~FracGT(drawdown_curve[k], bt.result.max_drawdown_pct)

\* a result whose equity curve falls below its start and later makes a new peak
C35_Witness ==
    /\ bt.result.returned
    /\ \E j, k \in DOMAIN bt.result.equity_curve :
          /\ j < k
          /\ bt.result.drawdown_curve[j][1] > 0
          /\ FracGT(bt.result.equity_curve[k], bt.result.equity_curve[1])
    /\ bt.result.max_drawdown_pct[1] > 0

--------------------------------------------------------------------------
(* Claims about the positions of a backtest run *)

\* whether the run holds an open position
BtHolding(b) == b.current_position # NoPosition /\ BtIsOpen(b.current_position)

\* a step of run() that handles the signal of a bar without an exception
BtSignalHandled == bt.pc = "signal" /\ bt'.pc \in {"exit_check", "final"}

\* C36: at every point of the replay at most one position is open; a BUY or SELL
\* received while a position is open opens nothing and does not reverse it; a CLOSE
\* with no open position does nothing; the trades do not overlap (exit_time of trade k
\* <= entry_time of trade k+1); each new position's size is
\* capital * position_size_pct / entry_price with the capital at entry.
C36_SinglePosition ==
    /\ [](bt.opened - Len(bt.positions) = IF BtHolding(bt) THEN 1 ELSE 0)
    /\ [](\A k \in 1..(Len(bt.positions) - 1) :
             bt.positions[k].exit_time <= bt.positions[k + 1].entry_time)
    /\ [][ BtSignalHandled =>
             /\ (BtHolding(bt) /\ bt'.signal.signal_type \in {"buy", "sell"})
                   => /\ bt'.current_position = bt.current_position
                      /\ bt'.positions = bt.positions
                      /\ bt'.opened = bt.opened
                      /\ bt'.capital = bt.capital
             /\ (~BtHolding(bt) /\ bt'.signal.signal_type = "close")
                   => /\ bt'.current_position = bt.current_position
                      /\ bt'.positions = bt.positions
                      /\ bt'.opened = bt.opened
                      /\ bt'.capital = bt.capital
             /\ bt'.opened # bt.opened
                   => /\ bt'.opened = bt.opened + 1
                      /\ ~BtHolding(bt)
                      /\ FracMul(bt'.current_position.size,
                                 <<bt'.current_position.entry_price, BtSlippageDen>>)
                           = FracScale(bt.capital, PositionSizePct, 100) ]_vars

\* a BUY or SELL was received while a position was open, and the position is still held
C36_Witness ==
    /\ bt.pc \in {"exit_check", "final"}
    /\ bt.signal.signal_type \in {"buy", "sell"}
    /\ bt.calls # << >>
    /\ bt.calls[Len(bt.calls)].current_position # NoPosition
    /\ BtHolding(bt)

--------------------------------------------------------------------------
(* Claims about the bars the strategy sees *)

\* the bar of the input that has r - 1 bars of the input before it in time
BarOfRank(input, r) ==
    CHOOSE x \in { input[k] : k \in DOMAIN input } :
       Cardinality({ k \in DOMAIN input : input[k].timestamp < x.timestamp }) = r - 1

\* C37: the bars are processed in non-decreasing timestamp order whatever the order of
\* the input list, which is not mutated, and at bar i the history passed to
\* generate_signal is exactly bars max(0, i - lookback) .. i - 1 of the sorted series,
\* never bar i or a later bar, with bar i passed as the current bar.
C37_NoLookAhead ==
    /\ [](\A k \in DOMAIN bt.calls :
            LET call == bt.calls[k]
                first == IF k - bt.lookback > 1 THEN k - bt.lookback ELSE 1
            IN  /\ call.market_data = BarOfRank(bt.input, k)
                /\ Len(call.history) = k - first
                /\ \A j \in DOMAIN call.history :
                      /\ call.history[j] = BarOfRank(bt.input, first + j - 1)
                      /\ call.history[j].timestamp < call.market_data.timestamp
                /\ k > 1 => bt.calls[k - 1].market_data.timestamp
                               <= call.market_data.timestamp)
    /\ [][bt'.input = bt.input]_vars

\* a run over an input given out of order that has reached its second bar, with a
\* lookback that reaches before the first bar
C37_Witness ==
    /\ Len(bt.calls) = 2
    /\ bt.lookback = 2
    /\ bt.input[1].timestamp > bt.input[2].timestamp
    /\ Len(bt.calls[2].history) = 1

--------------------------------------------------------------------------
(* Claims about the trade counts *)

\* C38: in every BacktestResult, winning_trades + losing_trades = total_trades =
\* len(trades): each closed trade is counted as exactly one of winning (pnl > 0) or
\* losing (pnl <= 0), a trade whose pnl is exactly 0 included.
C38_TradeCounts ==
    bt.result.returned
       => /\ bt.result.total_trades = Len(bt.result.trades)
          /\ bt.result.winning_trades + bt.result.losing_trades = bt.result.total_trades
          /\ bt.result.winning_trades
                = Cardinality({ k \in DOMAIN bt.result.trades :
                                   PositionPnl(bt.result.trades[k])[1] > 0 })
          /\ bt.result.losing_trades
                = Cardinality({ k \in DOMAIN bt.result.trades :
                                   PositionPnl(bt.result.trades[k])[1] <= 0 })

--------------------------------------------------------------------------
(* Claims about the equity curve of the bar-based engine *)

\* the net PnL (gross PnL minus exit fee) of the closed trades
RECURSIVE RealizedNetPnl(_)
RealizedNetPnl(trades) ==
    IF trades = << >> THEN <<0, 1>>
    ELSE LET trade == Head(trades)
             gross_pnl == IF trade.is_long
                          THEN FracMul(FracSub(trade.exit_price, trade.entry_price), trade.size)
                          ELSE FracMul(FracSub(trade.entry_price, trade.exit_price), trade.size)
         IN  FracAdd(FracSub(gross_pnl, trade.fee_exit), RealizedNetPnl(Tail(trades)))

\* the unrealized PnL of the position held, at a price
UnrealizedPnl(b, current_price) ==
    IF b.position_size[1] = 0 THEN <<0, 1>>
    ELSE IF b.position_is_long
    THEN FracMul(FracSub(<<current_price, 1>>, b.position_entry_price), b.position_size)
    ELSE FracMul(FracSub(b.position_entry_price, <<current_price, 1>>),
                 FracAbs(b.position_size))

\* the total account value: initial capital plus realized net PnL minus the entry fees
\* paid plus the unrealized PnL of the open position
AccountValue(b, current_price) ==
    FracAdd(FracSub(FracAdd(<<CoreInitialCapital, 1>>, RealizedNetPnl(b.trades)),
                    b.fees_entry),
            UnrealizedPnl(b, current_price))

\* C39: in the run of the bar-based engine every equity_curve sample is the total
\* account value at the bar's close; opening a long or short position at an unchanged
\* price never raises the sample above the previous one; the final sample of the
\* result is the returned cash.
C39_EquityIsAccountValue ==
    /\ [][ (bt.pc = "core_bar" /\ bt'.pc \in {"core_bar", "core_final"}) =>
             LET current_price == bt.price_data[bt.i].price
                 sample == bt'.equity_curve[Len(bt'.equity_curve)]
                 previous == bt.equity_curve[Len(bt.equity_curve)]
             IN  /\ sample = AccountValue(bt', current_price)
                 /\ (/\ bt.position_size[1] = 0 /\ bt'.position_size[1] # 0
                     /\ bt.i > 1 /\ bt.price_data[bt.i - 1].price = current_price)
                       => ~FracGT(sample, previous) ]_vars
    /\ [](bt.pc = "core_done"
            => bt.result.equity_curve[Len(bt.result.equity_curve)] = bt.result.cash)

====
